---- MODULE Spec2Model ----
(***************************************************************************)
(* State-machine model of the distillation job runners of gadogado:        *)
(*   src-tauri/resources/scripts/distill-train.py  (the trainer)           *)
(*   src-tauri/resources/scripts/distill-eval.py   (the evaluator)         *)
(*                                                                         *)
(* Spec       one launch of the trainer or of the evaluator, from the      *)
(*            parsed command line to the process exit, with the host that  *)
(*            may create the cancellation marker at any moment and with    *)
(*            file writes that may fail.                                   *)
(* SpecAtomic one _atomic_write_text/_atomic_write_jsonl call interleaved   *)
(*            with a reader of the target path.                            *)
(***************************************************************************)
EXTENDS Integers, Sequences, FiniteSets, TLC

(***************************************************************************)
(* Bounds of the model.                                                    *)
(***************************************************************************)
MaxSteps == 2
MaxLines == 2
MaxChunks == 2
MaxItems == 20
MaxTokens == 2
MaxSeqLen == 3

(***************************************************************************)
(* Program constants.                                                      *)
(***************************************************************************)
DefaultSteps == 100
DefaultEmitEvery == 1
DefaultAlpha == 50
DefaultWeight == 1
ExitOk == 0
ExitCancelled == 130
ExitError == 2
ExitCrash == 1

NotExited == 0 - 1

(***************************************************************************)
(* Python values: a key that is missing from a dict reads as Absent (the   *)
(* None of dict.get); Absent and the empty string are falsy.               *)
(***************************************************************************)
Absent == "<absent>"

AbsentInt == 0 - 1

PyTrue == "True"

PyFalse == "False"

Truthy(v) == v \notin {Absent, "", PyFalse}

TruthyInt(n) == n \notin {AbsentInt, 0}

Or(a, b) == IF Truthy(a) THEN a ELSE b

OrInt(a, b) == IF TruthyInt(a) THEN a ELSE b

GetOr(v, default) == IF v = Absent THEN default ELSE v

GetOrInt(n, default) == IF n = AbsentInt THEN default ELSE n

Max(a, b) == IF a >= b THEN a ELSE b

Min(a, b) == IF a <= b THEN a ELSE b

(***************************************************************************)
(* The job configurations explored.  A configuration is the JSON object    *)
(* read by main; hp is its "hyperparams" object.  RawInputs holds a base   *)
(* configuration and, for each group of keys that one part of the program  *)
(* reads together, every combination of that group's values with the       *)
(* other keys at their base value.                                         *)
(***************************************************************************)
EmptyHp ==
  [max_steps |-> AbsentInt, grad_accum |-> AbsentInt, epochs |-> AbsentInt,
   batch_size |-> AbsentInt, lora_enabled |-> Absent,
   export_format |-> Absent, save_adapter |-> Absent, saveAdapter |-> Absent,
   save_merged_model |-> Absent, saveMergedModel |-> Absent,
   alpha |-> AbsentInt, alpha_start |-> AbsentInt, alpha_warmup_steps |-> AbsentInt]

EmptyRaw ==
  [run_id |-> Absent, runId |-> Absent, run_dir |-> Absent, runDir |-> Absent,
   eval_id |-> Absent, evalId |-> Absent, version_id |-> Absent, versionId |-> Absent,
   dataset_id |-> Absent, datasetId |-> Absent, compute_teacher_agreement |-> Absent,
   mode |-> Absent, steps |-> AbsentInt, emit_every |-> AbsentInt,
   dataset_source |-> Absent, dataset_path |-> Absent,
   training_db_path |-> Absent, soft_labels_path |-> Absent,
   student_model |-> Absent, teacher_model |-> Absent, toy_model |-> Absent,
   seed |-> AbsentInt, hp |-> EmptyHp]

BaseRaw ==
  [EmptyRaw EXCEPT !.run_id = "r1", !.run_dir = "A", !.steps = MaxSteps,
                   !.dataset_source = "inline", !.student_model = "hf/student"]

IdentityInputs ==
  { [run_id |-> Absent, runId |-> Absent, run_dir |-> "A",    runDir |-> Absent],
    [run_id |-> "r1",   runId |-> Absent, run_dir |-> Absent, runDir |-> Absent],
    [run_id |-> "r1",   runId |-> Absent, run_dir |-> "A",    runDir |-> Absent],
    [run_id |-> Absent, runId |-> "r1",   run_dir |-> Absent, runDir |-> "A"] }

SourceInputs ==
  { [dataset_source |-> "none",   dataset_path |-> Absent,    training_db_path |-> Absent],
    [dataset_source |-> "jsonl",  dataset_path |-> Absent,    training_db_path |-> Absent],
    [dataset_source |-> "jsonl",  dataset_path |-> "d.jsonl", training_db_path |-> Absent],
    [dataset_source |-> "inline", dataset_path |-> Absent,    training_db_path |-> Absent],
    [dataset_source |-> "inline", dataset_path |-> Absent,    training_db_path |-> "t.db"],
    [dataset_source |-> Absent,   dataset_path |-> Absent,    training_db_path |-> Absent],
    [dataset_source |-> "db",     dataset_path |-> Absent,    training_db_path |-> "t.db"] }

ModeInputs == {Absent, "knowledge_distillation", "hybrid", "bogus"}

StudentInputs == {Absent, "hf/student", "student.gguf"}

TeacherInputs == {Absent, "hf/teacher", "teacher.gguf"}

FlagInputs == {Absent, PyTrue, PyFalse}

FormatInputs == {Absent, "adapter", "merged_model", "gguf", "onnx"}

IdentitySlice ==
  { [BaseRaw EXCEPT !.run_id = i.run_id, !.runId = i.runId, !.run_dir = i.run_dir,
                    !.runDir = i.runDir, !.student_model = s]
      : i \in IdentityInputs, s \in {Absent, "hf/student"} }

PipelineSlice ==
  { [BaseRaw EXCEPT !.mode = m, !.student_model = s, !.toy_model = t]
      : m \in ModeInputs, s \in StudentInputs, t \in {Absent, PyTrue} }

BudgetSlice ==
  { [BaseRaw EXCEPT !.steps = n, !.emit_every = e, !.student_model = Absent]
      : n \in 0..MaxSteps, e \in {AbsentInt, 2} }
  \cup
  { [BaseRaw EXCEPT !.steps = n, !.emit_every = e,
                    !.hp = [EmptyHp EXCEPT !.max_steps = k, !.grad_accum = g]]
      : n \in 0..MaxSteps, e \in {AbsentInt, 2},
        k \in {AbsentInt, MaxSteps + 1}, g \in {AbsentInt, 2} }

SourceSlice ==
  { [BaseRaw EXCEPT !.dataset_source = d.dataset_source, !.dataset_path = d.dataset_path,
                    !.training_db_path = d.training_db_path, !.student_model = s]
      : d \in SourceInputs, s \in {Absent, "hf/student"} }

SeedSlice ==
  { [BaseRaw EXCEPT !.dataset_source = "db", !.training_db_path = "t.db", !.seed = 7,
                    !.student_model = s]
      : s \in {Absent, "hf/student"} }

TeacherSlice ==
  { [BaseRaw EXCEPT !.mode = "knowledge_distillation",
                    !.dataset_source = d.dataset_source,
                    !.dataset_path = d.dataset_path,
                    !.training_db_path = d.training_db_path,
                    !.teacher_model = t]
      : d \in {x \in SourceInputs : x.dataset_source \in {"inline", Absent, "db"}},
        t \in TeacherInputs }
  \cup
  { [BaseRaw EXCEPT !.mode = "hybrid", !.dataset_source = "inline", !.teacher_model = t]
      : t \in TeacherInputs }

SoftLabelSlice ==
  { [BaseRaw EXCEPT !.mode = m, !.teacher_model = t, !.soft_labels_path = "soft.jsonl"]
      : m \in ModeInputs \ {"bogus"}, t \in {Absent, "hf/teacher"} }

FlagPairs ==
  {k \in FlagInputs \X FlagInputs : k[1] = Absent \/ k[2] = Absent \/ k[1] # k[2]}

ExportFlags(f, adapter, merged) ==
  [BaseRaw EXCEPT !.steps = 1,
                  !.hp = [EmptyHp EXCEPT !.export_format = f,
                                         !.save_adapter = adapter[1],
                                         !.saveAdapter = adapter[2],
                                         !.save_merged_model = merged[1],
                                         !.saveMergedModel = merged[2]]]

ExportSlice ==
  { ExportFlags(f, <<a, Absent>>, <<m, Absent>>)
      : f \in FormatInputs, a \in FlagInputs, m \in FlagInputs }
  \cup { ExportFlags("gguf", a, m) : a \in FlagPairs, m \in FlagPairs }

(***************************************************************************)
(* The mixing coefficient's keys, in hundredths: no value, 0, values in    *)
(* [0,1] and a value above 1; no warm-up and a warm-up of two steps, over  *)
(* a budget of two steps.                                                  *)
(***************************************************************************)
AlphaInputs == {AbsentInt, 0, 80, 150}

AlphaStartInputs == {AbsentInt, 0, 20}

AlphaSlice ==
  { [BaseRaw EXCEPT !.mode = m, !.steps = 2,
                    !.hp = [EmptyHp EXCEPT !.alpha = a, !.alpha_start = b,
                                           !.alpha_warmup_steps = w]]
      : m \in {Absent, "knowledge_distillation", "hybrid"},
        a \in AlphaInputs, b \in AlphaStartInputs, w \in {AbsentInt, 2} }

TrainRawInputs ==
  {EmptyRaw} \cup IdentitySlice \cup PipelineSlice \cup BudgetSlice \cup SourceSlice
    \cup TeacherSlice \cup SoftLabelSlice \cup ExportSlice \cup AlphaSlice
    \cup SeedSlice

(***************************************************************************)
(* The evaluator's configurations: every subset of the four required keys, *)
(* the camelCase spelling, and the keys _evaluate reads.                   *)
(***************************************************************************)
EvalBaseRaw ==
  [EmptyRaw EXCEPT !.eval_id = "e1", !.version_id = "v1", !.dataset_id = "d1",
                   !.run_dir = "A", !.training_db_path = "t.db"]

EvalRawInputs ==
  {EmptyRaw}
  \cup { [EvalBaseRaw EXCEPT !.eval_id = e, !.version_id = v, !.dataset_id = d,
                             !.run_dir = r]
          : e \in {Absent, "e1"}, v \in {Absent, "v1"}, d \in {Absent, "d1"},
            r \in {Absent, "A"} }
  \cup { [EmptyRaw EXCEPT !.evalId = "e1", !.versionId = "v1", !.datasetId = "d1",
                          !.runDir = "A", !.training_db_path = "t.db"],
         [EvalBaseRaw EXCEPT !.training_db_path = Absent],
         [EvalBaseRaw EXCEPT !.compute_teacher_agreement = PyTrue] }

(***************************************************************************)
(* The launches explored: the --run-dir override is varied together with   *)
(* the identity keys of the config.                                        *)
(***************************************************************************)
OverrideInputs == {Absent, "B"}

RawInputsFor(run_dir_override) ==
  IF run_dir_override = Absent THEN TrainRawInputs ELSE {EmptyRaw} \cup IdentitySlice

(***************************************************************************)
(* The metadata store (training.db) as the run finds it: the run's row of  *)
(* training_runs (its hyperparams_json, its student and its teacher) and   *)
(* the models rows they point to.  "broken" is a file sqlite3 cannot       *)
(* query.  The store is read-only and does not change during the run.      *)
(***************************************************************************)
NoStore == [state |-> "unread", hyperparams_json |-> EmptyHp, student |-> "none",
            teacher |-> "none"]

BaseStore == [NoStore EXCEPT !.state = "ok"]

StoreInputs ==
  {BaseStore, [NoStore EXCEPT !.state = "broken"],
   [BaseStore EXCEPT !.hyperparams_json = [EmptyHp EXCEPT !.grad_accum = 2]]}
  \cup {[BaseStore EXCEPT !.student = x] : x \in {"path", "nopath"}}
  \cup {[BaseStore EXCEPT !.teacher = x] : x \in {"local", "local_nopath", "api", "missing"}}

(***************************************************************************)
(* A dataset as the run finds it: the lines of the jsonl file, the items   *)
(* of the inline list or the rows of the store, each named by what it      *)
(* holds.                                                                  *)
(***************************************************************************)
RecordKinds == {"train", "val", "no_prompt", "no_target"}

JsonlKinds == RecordKinds \cup {"blank", "bad_json"}

RowKinds == {"train", "val"}

SeqsUpTo(S, n) == UNION {[1..k -> S] : k \in 0..n}

Dirs == {"A", "B"}

Files == {"config.json", "dataset.jsonl", "dataset_summary.json", "result.json",
          "adapter", "merged_model", "predictions.jsonl", "metrics.json"}

(***************************************************************************)
(* Events: one line of the output stream, {"kind": ..., "payload": ...}.   *)
(* level and msg are the payload's level and message (status), msg the     *)
(* artifact kind (artifact); step is the payload's step (progress); dir    *)
(* and file are the path the payload names; a status that carries a        *)
(* teacher_model_id or a trace has it in file; alpha is the payload's      *)
(* alpha, in hundredths (progress of the real pipeline).                   *)
(***************************************************************************)
Event(kind, level, msg, step, dir, file) ==
  [kind |-> kind, level |-> level, msg |-> msg, step |-> step, dir |-> dir, file |-> file,
   alpha |-> 0]

LogLine(level, msg) == Event("log", level, msg, 0, Absent, Absent)

Status(level, msg) == Event("status", level, msg, 0, Absent, Absent)

TeacherWarn(msg, teacher_model_id) == Event("status", "warn", msg, 0, Absent, teacher_model_id)

ErrorStatus(message) == Event("status", "error", message, 0, Absent, "trace")

Artifact(what, dir, file) == Event("artifact", Absent, what, 0, dir, file)

Progress(step) == Event("progress", Absent, Absent, step, Absent, Absent)

TrainProgress(step, alpha) == [Progress(step) EXCEPT !.alpha = alpha]

Plain(kind) == Event(kind, Absent, Absent, 0, Absent, Absent)

(***************************************************************************)
(* _parse_config of the trainer: the canonical job descriptor, or the      *)
(* ValueError it raises.                                                   *)
(***************************************************************************)
FoldAliases(raw) ==
  LET r1 == IF raw.runId # Absent /\ raw.run_id = Absent
            THEN [raw EXCEPT !.run_id = raw.runId] ELSE raw
  IN  IF r1.runDir # Absent /\ r1.run_dir = Absent
      THEN [r1 EXCEPT !.run_dir = r1.runDir] ELSE r1

DefaultRunDir(raw, run_dir_override) ==
  IF Truthy(run_dir_override) THEN run_dir_override
  ELSE Or(Or(raw.run_dir, raw.runDir), "A")

ParseRunDir(raw, run_dir_override) ==
  IF Truthy(run_dir_override) THEN run_dir_override
  ELSE Or(Or(raw.run_dir, raw.runDir), "")

CancelRunDir(raw) == Or(Or(raw.run_dir, raw.runDir), "")

ParseConfig(raw0, run_dir_override) ==
  LET raw     == FoldAliases(raw0)
      run_id  == Or(Or(raw.run_id, raw.runId), "")
      run_dir == ParseRunDir(raw, run_dir_override)
  IN  IF ~Truthy(run_id) THEN [ok |-> FALSE, error |-> "Missing required field: run_id"]
      ELSE IF ~Truthy(run_dir) THEN [ok |-> FALSE, error |-> "Missing required field: run_dir"]
      ELSE [ok |-> TRUE,
            run_id |-> run_id,
            run_dir |-> run_dir,
            mode |-> GetOr(raw.mode, "fine_tune"),
            steps |-> GetOrInt(raw.steps, DefaultSteps),
            emit_every |-> GetOrInt(raw.emit_every, DefaultEmitEvery),
            dataset_source |-> Or(raw.dataset_source, "db"),
            training_db_path |-> Or(raw.training_db_path, Absent),
            dataset_path |-> Or(raw.dataset_path, Absent),
            seed |-> raw.seed,
            hyperparams |-> raw.hp,
            soft_labels_path |-> Or(raw.soft_labels_path, Absent)]

NoCfg == [ok |-> FALSE, error |-> Absent]

(***************************************************************************)
(* _parse_config of the evaluator.                                         *)
(***************************************************************************)
FoldEvalAliases(raw) ==
  LET r1 == IF raw.evalId # Absent /\ raw.eval_id = Absent
            THEN [raw EXCEPT !.eval_id = raw.evalId] ELSE raw
      r2 == IF r1.versionId # Absent /\ r1.version_id = Absent
            THEN [r1 EXCEPT !.version_id = r1.versionId] ELSE r1
      r3 == IF r2.datasetId # Absent /\ r2.dataset_id = Absent
            THEN [r2 EXCEPT !.dataset_id = r2.datasetId] ELSE r2
  IN  IF r3.runDir # Absent /\ r3.run_dir = Absent
      THEN [r3 EXCEPT !.run_dir = r3.runDir] ELSE r3

ParseEvalConfig(raw0, run_dir_override) ==
  LET raw        == FoldEvalAliases(raw0)
      eval_id    == Or(raw.eval_id, "")
      version_id == Or(raw.version_id, "")
      dataset_id == Or(raw.dataset_id, "")
      run_dir    == IF Truthy(run_dir_override) THEN run_dir_override
                    ELSE Or(raw.run_dir, "")
  IN  IF ~Truthy(eval_id) \/ ~Truthy(version_id) \/ ~Truthy(dataset_id) \/ ~Truthy(run_dir)
      THEN [ok |-> FALSE, error |-> "eval_id, version_id, dataset_id, run_dir are required"]
      ELSE [ok |-> TRUE,
            eval_id |-> eval_id,
            version_id |-> version_id,
            dataset_id |-> dataset_id,
            run_dir |-> run_dir,
            training_db_path |-> Or(raw.training_db_path, Absent),
            compute_teacher_agreement |-> Truthy(raw.compute_teacher_agreement)]

(***************************************************************************)
(* Variant: a train share rounded up.                                      *)
(***************************************************************************)
TrainShareRoundedUp(n) == (9 * n + 9) \div 10

(***************************************************************************)
(* _deterministic_split lines 240-241: int(n * 0.9) and int(n * 0.05).     *)
(* The doubles nearest 0.9 and 0.05 lie above them, so the products are    *)
(* never below the exact ones and int() yields the exact floors.           *)
(***************************************************************************)
n_train(n) == (9 * n) \div 10

n_val(n) == n \div 20

(***************************************************************************)
(* _build_dataset, the loops over lines / items / rows: the split counts   *)
(* of the samples built, or the class of the exception the first bad       *)
(* record raises.                                                          *)
(***************************************************************************)
RECURSIVE SkipMalformed(_, _)
SkipMalformed(lines, acc) ==
  IF lines = <<>> THEN acc
  ELSE LET k == Head(lines)
       IN  IF k \in {"train", "val"}
           THEN SkipMalformed(Tail(lines), [acc EXCEPT ![k] = @ + 1])
           ELSE SkipMalformed(Tail(lines), acc)

RECURSIVE BuildSamples(_, _)
BuildSamples(lines, acc) ==
  IF lines = <<>> THEN acc
  ELSE LET k == Head(lines)
       IN  IF k = "blank" THEN BuildSamples(Tail(lines), acc)
           ELSE IF k = "bad_json" THEN [acc EXCEPT !.error = "ValueError"]
           ELSE IF k \in {"no_prompt", "no_target"} THEN [acc EXCEPT !.error = "KeyError"]
           ELSE BuildSamples(Tail(lines), [acc EXCEPT ![k] = @ + 1])

NoSamples == [error |-> Absent, train |-> 0, val |-> 0]

(***************************************************************************)
(* The state of one launch.                                                *)
(***************************************************************************)
VARIABLES
  prog,        \* "train" or "eval": which script was launched
  args,        \* the parsed command line: [run_dir |-> the --run-dir override]
  raw,         \* main's raw config dict
  cfg,         \* the TrainConfig/EvalConfig, NoCfg before parsing
  pc,          \* the position of the process
  exc,         \* the exception in flight (its class), Absent when none
  imports,     \* _try_imports(): [torch, transformers]
  store,       \* the metadata store as read so far, NoStore before the first query
  dataset,     \* what _build_dataset read: the lines, items or rows, by what each holds
  samples,     \* the split counts of the sample list: [error, train, val]
  ds_meta,     \* [source, path] of the dataset manifest
  run,         \* the locals of _run_training_pipeline/_run_stub_training
  events,      \* the lines written to stdout, in order
  fs,          \* the run directories: fs[dir][file] is the content, Absent when no file
  made,        \* the directories created by this process
  writes,      \* the completed renames, in order: <<dir, file, content>>
  marker,      \* whether cancel.flag exists in the polled run directory
  marked_at_start, \* whether cancel.flag existed before the first step of the process
  store_opens, \* how many times the metadata store was opened
  exit_code,   \* the process exit code, NotExited while running
  wpc,         \* SpecAtomic: the position of the writer in _atomic_write_*
  target,      \* SpecAtomic: the name of the target file
  text,        \* SpecAtomic: the chunks to write
  previous,    \* SpecAtomic: the content of the target before the call, Gone when no file
  entries,     \* SpecAtomic: the run directory: name -> inode, 0 when no such name
  inodes,      \* SpecAtomic: inode -> the chunks the file holds
  rpc,         \* SpecAtomic: the position of the reader
  rfd,         \* SpecAtomic: the inode the reader has open, 0 when none
  rbuf,        \* SpecAtomic: the chunks the reader has read from rfd
  seen,        \* SpecAtomic: the results of the reader's completed reads
  dpc,         \* SpecDataset: the position in building the sample list
  dsamples,    \* SpecDataset: the list of TrainingSample built
  shuffled,    \* SpecDataset: _deterministic_split's shuffled copy
  out,         \* SpecDataset: _deterministic_split's out list
  rows_written,  \* SpecDataset: the rows of dataset.jsonl
  batch_weights, \* SpecDataset: the weights the training loop is fed
  epc,         \* SpecEncode: the position in encode_example
  prompt_ids,  \* SpecEncode: the token ids of the prompt
  sep_ids,     \* SpecEncode: the token ids of the separator
  target_ids,  \* SpecEncode: the token ids of the target
  add_eos,     \* SpecEncode: the add_eos setting
  eos_id,      \* SpecEncode: the tokenizer's eos_token_id, AbsentInt when None
  max_seq_len, \* SpecEncode: the maximum encoded length
  prompt_full, \* SpecEncode: the local prompt_full
  target_full, \* SpecEncode: the local target_full
  encoded      \* SpecEncode: the dict returned: [input_ids, labels, attention_mask]

mainVars == <<prog, args, raw, cfg, pc, exc, imports, store, dataset, samples, ds_meta,
              run, events, fs, made, writes, marker, marked_at_start, store_opens,
              exit_code>>

atomicVars == <<wpc, target, text, previous, entries, inodes, rpc, rfd, rbuf, seen>>

datasetVars == <<dpc, dsamples, shuffled, out, rows_written, batch_weights>>

encodeVars == <<epc, prompt_ids, sep_ids, target_ids, add_eos, eos_id, max_seq_len,
                prompt_full, target_full, encoded>>

sideVars == <<atomicVars, datasetVars, encodeVars>>

vars == <<mainVars, atomicVars, datasetVars, encodeVars>>

NoRun ==
  [real |-> FALSE, mode |-> Absent, hp |-> EmptyHp, max_steps |-> 0, grad_accum |-> 1,
   epochs |-> 1, n_batches |-> 0, lora |-> FALSE, wrapped |-> FALSE,
   teacher_model |-> FALSE, teacher_logits_ok |-> FALSE, has_cached |-> FALSE,
   epoch |-> 0, batch |-> 0, global_step |-> 0, optim_step |-> 0, forwards |-> 0,
   loss |-> Absent, kd_loss |-> FALSE, val_loss |-> FALSE, step |-> 0, student |-> Absent,
   alpha |-> 0, loss_ce |-> 0, loss_kd |-> 0, result_steps |-> 0, polls |-> 0, running_count |-> 0, total_count |-> 0]

(***************************************************************************)
(* The file system under one _atomic_write_text/_atomic_write_jsonl call.  *)
(* A directory maps names to inodes; an inode holds the chunks written so  *)
(* far; a reader that opened a name keeps reading the inode it opened.     *)
(***************************************************************************)
Persisted == {"config.json", "dataset.jsonl", "dataset_summary.json", "result.json",
              "predictions.jsonl", "metrics.json"}

Gone == <<"<no file>">>

InPlace(name) == name

TmpName(name) == name \o ".tmp"

Names == Persisted \cup {TmpName(n) : n \in Persisted}

Contents(chunk) == {[i \in 1..n |-> chunk] : n \in 1..MaxChunks}

AtomicIdle ==
  /\ wpc = "idle"
  /\ target = Absent
  /\ text = <<>>
  /\ previous = Gone
  /\ entries = [n \in Names |-> 0]
  /\ inodes = <<>>
  /\ rpc = "idle"
  /\ rfd = 0
  /\ rbuf = <<>>
  /\ seen = {}

NoEncoding == [input_ids |-> <<>>, labels |-> <<>>, attention_mask |-> <<>>]

EncodeIdle ==
  /\ epc = "idle"
  /\ prompt_ids = <<>>
  /\ sep_ids = <<>>
  /\ target_ids = <<>>
  /\ add_eos = FALSE
  /\ eos_id = AbsentInt
  /\ max_seq_len = 0
  /\ prompt_full = <<>>
  /\ target_full = <<>>
  /\ encoded = NoEncoding

DatasetIdle ==
  /\ dpc = "idle"
  /\ dsamples = <<>>
  /\ shuffled = <<>>
  /\ out = <<>>
  /\ rows_written = <<>>
  /\ batch_weights = <<>>

Init ==
  /\ prog \in {"train", "eval"}
  /\ args \in [run_dir : OverrideInputs]
  /\ raw = EmptyRaw
  /\ cfg = NoCfg
  /\ pc = "load_config"
  /\ exc = Absent
  /\ imports = [torch |-> FALSE, transformers |-> FALSE]
  /\ store = NoStore
  /\ dataset = <<>>
  /\ samples = NoSamples
  /\ ds_meta = [source |-> Absent, path |-> Absent]
  /\ run = NoRun
  /\ events = <<>>
  /\ fs = [d \in Dirs |-> [f \in Files |-> Absent]]
  /\ made = {}
  /\ writes = <<>>
  /\ marker = FALSE
  /\ marked_at_start = FALSE
  /\ store_opens = 0
  /\ exit_code = NotExited
  /\ AtomicIdle
  /\ DatasetIdle
  /\ EncodeIdle

Running == exit_code = NotExited

Emit(e) == events' = Append(events, e)

EmitAll(es) == events' = events \o es

Raise(cls) == pc' = "except" /\ exc' = cls

Goto(label) == pc' = label /\ exc' = exc

(***************************************************************************)
(* _atomic_write_text/_atomic_write_jsonl as one step of the process: the  *)
(* target holds the new content once os.replace has run; a write that      *)
(* raises before it leaves the target as it was (SpecAtomic has the        *)
(* steps).  Persist is the write with its bookkeeping.                     *)
(***************************************************************************)
LeavesTarget(files, dir, file, content) == files

AtomicWrite(files, dir, file, content) ==
  [files EXCEPT ![dir][file] = content]

Persist(dir, file, content) ==
  /\ made' = made \cup {dir}
  /\ fs' = AtomicWrite(fs, dir, file, content)
  /\ writes' = Append(writes, <<dir, file, content>>)

(***************************************************************************)
(* _check_cancel: raise CancelledError when cancel.flag exists.  Polled is *)
(* the number of calls made from the batch loops after one more call.      *)
(***************************************************************************)
PolledTwice(n) == n + 2

Polled(n) == n + 1

NeverCancel == FALSE

CheckCancel == marker

(***************************************************************************)
(* One query of the store: sqlite3.connect, execute, close.  The first     *)
(* query finds the store in one of its possible contents.                  *)
(***************************************************************************)
StoreSeen(s) == IF store.state = "unread" THEN s \in StoreInputs ELSE s = store

(***************************************************************************)
(* main of the trainer, lines 1420-1433: read the config.                  *)
(***************************************************************************)
LoadConfig ==
  /\ Running /\ prog = "train" /\ pc = "load_config"
  /\ \E r \in RawInputsFor(args.run_dir) :
       /\ raw' = r
       /\ IF r = EmptyRaw THEN Raise("ValueError") ELSE Goto("parse_config")
  /\ UNCHANGED <<prog, args, cfg, imports, store, dataset, samples, ds_meta, run, events,
                 fs, made, writes, marker, marked_at_start, store_opens, exit_code>>
  /\ UNCHANGED sideVars

(***************************************************************************)
(* main line 1435: cfg = _parse_config(raw, args.run_dir).                 *)
(***************************************************************************)
ParseTrainConfig ==
  /\ Running /\ prog = "train" /\ pc = "parse_config"
  /\ LET c == ParseConfig(raw, args.run_dir)
     IN  IF c.ok
         THEN cfg' = c /\ Goto("snapshot_config")
         ELSE cfg' = cfg /\ Raise("ValueError")
  /\ UNCHANGED <<prog, args, raw, imports, store, dataset, samples, ds_meta, run, events,
                 fs, made, writes, marker, marked_at_start, store_opens, exit_code>>
  /\ UNCHANGED sideVars

(***************************************************************************)
(* main lines 1437-1440: create the run directory, write config.json.      *)
(***************************************************************************)
SnapshotConfig ==
  /\ Running /\ prog = "train" /\ pc = "snapshot_config"
  /\ \E ok \in BOOLEAN :
       IF ok
       THEN Persist(cfg.run_dir, "config.json", "config") /\ Goto("announce")
       ELSE UNCHANGED <<made, fs, writes>> /\ Raise("OSError")
  /\ UNCHANGED <<prog, args, raw, cfg, imports, store, dataset, samples, ds_meta, run,
                 events, marker, marked_at_start, store_opens, exit_code>>
  /\ UNCHANGED sideVars

(***************************************************************************)
(* main lines 1442-1465: the started status, the import probe, the env     *)
(* event, the transformers requirement.                                    *)
(***************************************************************************)
Announce ==
  /\ Running /\ prog = "train" /\ pc = "announce"
  /\ \E i \in [torch : BOOLEAN, transformers : BOOLEAN] :
       /\ imports' = i
       /\ EmitAll(<<Status("info", "trainer started"), Plain("env")>>)
       /\ IF i.transformers THEN Goto("build_dataset") ELSE Raise("RuntimeError")
  /\ UNCHANGED <<prog, args, raw, cfg, store, dataset, samples, ds_meta, run, fs, made,
                 writes, marker, marked_at_start, store_opens, exit_code>>
  /\ UNCHANGED sideVars

(***************************************************************************)
(* main line 1468, _build_dataset (lines 271-346).  The file, the inline   *)
(* list and the store rows are read here.                                  *)
(***************************************************************************)
DatasetSource(c) == Or(c.dataset_source, "db")

BuildDataset ==
  /\ Running /\ prog = "train" /\ pc = "build_dataset"
  /\ LET source == DatasetSource(cfg)
     IN  CASE source = "none" ->
                /\ samples' = NoSamples
                /\ ds_meta' = [source |-> "none", path |-> Absent]
                /\ Goto("snapshot_dataset")
                /\ UNCHANGED <<store, store_opens, dataset>>
           [] source = "jsonl" ->
                /\ UNCHANGED <<store, store_opens>>
                /\ IF ~Truthy(cfg.dataset_path)
                   THEN UNCHANGED <<samples, ds_meta, dataset>> /\ Raise("ValueError")
                   ELSE \E readable \in BOOLEAN, lines \in SeqsUpTo(JsonlKinds, MaxLines) :
                          LET built == BuildSamples(lines, NoSamples)
                          IN  IF ~readable
                              THEN UNCHANGED <<samples, ds_meta, dataset>> /\ Raise("OSError")
                              ELSE /\ dataset' = lines
                                   /\ IF built.error # Absent
                                      THEN UNCHANGED <<samples, ds_meta>> /\ Raise(built.error)
                                      ELSE /\ samples' = built
                                           /\ ds_meta' = [source |-> "jsonl",
                                                          path |-> cfg.dataset_path]
                                           /\ Goto("snapshot_dataset")
           [] source = "inline" ->
                /\ UNCHANGED <<store, store_opens>>
                /\ \E is_list \in BOOLEAN, items \in SeqsUpTo(RecordKinds, MaxLines) :
                     LET built == BuildSamples(items, NoSamples)
                     IN  IF ~is_list
                         THEN UNCHANGED <<samples, ds_meta, dataset>> /\ Raise("ValueError")
                         ELSE /\ dataset' = items
                              /\ IF built.error # Absent
                                 THEN UNCHANGED <<samples, ds_meta>> /\ Raise(built.error)
                                 ELSE /\ samples' = built
                                      /\ ds_meta' = [source |-> "inline", path |-> Absent]
                                      /\ Goto("snapshot_dataset")
           [] OTHER ->
                \E inferred \in {Absent, "t.db"} :
                  LET db_path == Or(cfg.training_db_path, inferred)
                  IN  IF ~Truthy(db_path)
                      THEN /\ samples' = NoSamples
                           /\ ds_meta' = [source |-> "db", path |-> Absent]
                           /\ Goto("snapshot_dataset")
                           /\ UNCHANGED <<store, store_opens, dataset>>
                      ELSE \E s \in StoreInputs, rows \in SeqsUpTo(RowKinds, MaxLines),
                              corrections \in 0..MaxLines :
                             /\ store' = s
                             /\ IF s.state = "broken"
                                THEN /\ store_opens' = store_opens + 1
                                     /\ UNCHANGED <<samples, ds_meta, dataset>>
                                     /\ Raise("OperationalError")
                                ELSE /\ store_opens' = store_opens + (IF rows = <<>> THEN 2 ELSE 1)
                                     /\ dataset' = IF rows = <<>>
                                                   THEN [i \in 1..corrections |-> "train"]
                                                   ELSE rows
                                     /\ samples' =
                                          IF rows # <<>> THEN BuildSamples(rows, NoSamples)
                                          ELSE IF cfg.seed = AbsentInt
                                          THEN [NoSamples EXCEPT !.train = corrections]
                                          ELSE [NoSamples EXCEPT
                                                  !.train = n_train(corrections),
                                                  !.val = n_val(corrections)]
                                     /\ ds_meta' = [source |-> "db", path |-> db_path]
                                     /\ Goto("snapshot_dataset")
  /\ UNCHANGED <<prog, args, raw, cfg, imports, run, events, fs, made, writes, marker, marked_at_start,
                 exit_code>>
  /\ UNCHANGED sideVars

(***************************************************************************)
(* main lines 1476-1513: dataset.jsonl, dataset_summary.json, the dataset  *)
(* event.                                                                  *)
(***************************************************************************)
SnapshotDataset ==
  /\ Running /\ prog = "train" /\ pc = "snapshot_dataset"
  /\ \E written \in 0..2 :
       CASE written = 0 -> UNCHANGED <<made, fs, writes, events>> /\ Raise("OSError")
         [] written = 1 ->
              /\ Persist(cfg.run_dir, "dataset.jsonl", "dataset")
              /\ UNCHANGED events
              /\ Raise("OSError")
         [] OTHER ->
              /\ made' = made \cup {cfg.run_dir}
              /\ fs' = AtomicWrite(AtomicWrite(fs, cfg.run_dir, "dataset.jsonl", "dataset"),
                                   cfg.run_dir, "dataset_summary.json", "summary")
              /\ writes' = writes \o <<<<cfg.run_dir, "dataset.jsonl", "dataset">>,
                                       <<cfg.run_dir, "dataset_summary.json", "summary">>>>
              /\ Emit(Event("dataset", Absent, Absent, 0, cfg.run_dir, "dataset.jsonl"))
              /\ Goto("soft_labels")
  /\ UNCHANGED <<prog, args, raw, cfg, imports, store, dataset, samples, ds_meta, run,
                 marker, marked_at_start, store_opens, exit_code>>
  /\ UNCHANGED sideVars

(***************************************************************************)
(* main lines 1515-1535 with _load_cached_soft_labels (lines 349-399).     *)
(***************************************************************************)
LoadSoftLabels ==
  /\ Running /\ prog = "train" /\ pc = "soft_labels"
  /\ IF ~Truthy(cfg.soft_labels_path)
     THEN UNCHANGED <<events, run>>
     ELSE \E file \in {"missing", "unreadable", "empty", "labels"} :
            CASE file = "missing" ->
                   /\ Emit(Status("warn", "Soft labels path specified but file not found"))
                   /\ UNCHANGED run
              [] file = "unreadable" ->
                   /\ EmitAll(<<Status("error", "Failed to load soft labels"),
                                Status("info", "Using cached soft labels")>>)
                   /\ UNCHANGED run
              [] OTHER ->
                   /\ EmitAll(<<Status("info", "Loaded cached soft labels"),
                                Status("info", "Using cached soft labels")>>)
                   /\ run' = [run EXCEPT !.has_cached = (file = "labels")]
  /\ Goto("resolve_student")
  /\ UNCHANGED <<prog, args, raw, cfg, imports, store, dataset, samples, ds_meta, fs,
                 made, writes, marker, marked_at_start, store_opens, exit_code>>
  /\ UNCHANGED sideVars

(***************************************************************************)
(* _run_training_pipeline lines 703-761: the hyperparameters and the       *)
(* student model spec, from the config first and from the store second.    *)
(* The store is only consulted for the student through the path the        *)
(* dataset was loaded from (inferred_db_path).                             *)
(***************************************************************************)
InferredDbPath(meta) ==
  IF meta.source = "db" /\ Truthy(meta.path) THEN meta.path ELSE Absent

IsGguf(path) == path \in {"student.gguf", "teacher.gguf"}

StudentLookups(c, meta, s) ==
  LET hp_cfg   == c.hyperparams
      inferred == InferredDbPath(meta)
      n1       == IF hp_cfg = EmptyHp /\ Truthy(c.training_db_path) THEN 1 ELSE 0
      hp1      == IF n1 = 1 THEN s.hyperparams_json ELSE hp_cfg
      n2       == IF hp1 = EmptyHp /\ Truthy(inferred) THEN 1 ELSE 0
      hp2      == IF n2 = 1 THEN s.hyperparams_json ELSE hp1
      spec_cfg == raw.student_model
      n3       == IF spec_cfg = Absent /\ Truthy(inferred) THEN 1 ELSE 0
      n4       == IF n3 = 1 /\ s.student # "none" THEN 1 ELSE 0
      spec_db  == IF n4 = 1 /\ s.student = "path" THEN "store/student" ELSE spec_cfg
      spec     == IF Truthy(raw.toy_model) THEN "__toy__" ELSE spec_db
  IN  [opens |-> n1 + n2 + n3 + n4, hp |-> hp2, student_spec |-> spec]

ResolveStudent ==
  /\ Running /\ prog = "train" /\ pc = "resolve_student"
  /\ \E s \in StoreInputs :
       /\ StoreSeen(s)
       /\ LET r == StudentLookups(cfg, ds_meta, s)
          IN  IF r.opens = 0
              THEN UNCHANGED <<store, store_opens>>
                   /\ run' = [run EXCEPT !.hp = r.hp, !.student = r.student_spec]
                   /\ IF r.student_spec = Absent THEN Goto("stub_start")
                      ELSE IF IsGguf(r.student_spec) THEN Raise("RuntimeError")
                      ELSE IF ~(imports.torch /\ imports.transformers) THEN Raise("RuntimeError")
                      ELSE Goto("setup_training")
              ELSE /\ store' = s
                   /\ IF s.state = "broken"
                      THEN /\ store_opens' = store_opens + 1
                           /\ UNCHANGED run
                           /\ Raise("OperationalError")
                      ELSE /\ store_opens' = store_opens + r.opens
                           /\ run' = [run EXCEPT !.hp = r.hp, !.student = r.student_spec]
                           /\ IF r.student_spec = Absent THEN Goto("stub_start")
                              ELSE IF IsGguf(r.student_spec) THEN Raise("RuntimeError")
                              ELSE IF ~(imports.torch /\ imports.transformers)
                              THEN Raise("RuntimeError")
                              ELSE Goto("setup_training")
  /\ UNCHANGED <<prog, args, raw, cfg, imports, dataset, samples, ds_meta, events, fs,
                 made, writes, marker, marked_at_start, exit_code>>
  /\ UNCHANGED sideVars

(***************************************************************************)
(* _run_training_pipeline lines 763-943: the mode check, the train split,  *)
(* the hyperparameters, the student model with its optional LoRA wrapper,  *)
(* the model event.  peft and the model files are read here.               *)
(***************************************************************************)
Modes == {"fine_tune", "knowledge_distillation", "hybrid"}

CeilDiv(a, b) == (a + b - 1) \div b

MaxStepsOf(hp, steps) ==
  LET m == OrInt(hp.max_steps, steps)
  IN  IF m <= 0 THEN steps ELSE m

SetupTraining ==
  /\ Running /\ prog = "train" /\ pc = "setup_training"
  /\ \E peft \in BOOLEAN,
        model \in {"load_error", "encoder_decoder", "causal", "causal_no_targets"} :
       LET mode         == Or(cfg.mode, "fine_tune")
           hp           == run.hp
           toy          == run.student = "__toy__"
           lora_enabled == ~toy /\ hp.lora_enabled # PyFalse
           wrapped      == lora_enabled /\ peft /\ model = "causal"
           lora         == IF toy THEN FALSE
                           ELSE IF lora_enabled /\ peft THEN model = "causal"
                           ELSE lora_enabled
           batch_size   == OrInt(hp.batch_size, 1)
       IN  IF mode \notin Modes
           THEN UNCHANGED <<run, events>> /\ Raise("ValueError")
           ELSE IF samples.train = 0
           THEN UNCHANGED <<run, events>> /\ Raise("RuntimeError")
           ELSE IF ~toy /\ model = "load_error"
           THEN UNCHANGED <<run, events>> /\ Raise("OSError")
           ELSE IF ~toy /\ model = "encoder_decoder"
           THEN UNCHANGED <<run, events>> /\ Raise("RuntimeError")
           ELSE /\ run' = [run EXCEPT !.real = TRUE, !.mode = mode,
                                      !.max_steps = MaxStepsOf(hp, cfg.steps),
                                      !.grad_accum = OrInt(hp.grad_accum, 1),
                                      !.epochs = OrInt(hp.epochs, 1),
                                      !.n_batches = CeilDiv(samples.train, batch_size),
                                      !.lora = lora, !.wrapped = wrapped]
                /\ Emit(Plain("model"))
                /\ Goto("resolve_teacher")
  /\ UNCHANGED <<prog, args, raw, cfg, imports, store, dataset, samples, ds_meta, fs,
                 made, writes, marker, marked_at_start, store_opens, exit_code>>
  /\ UNCHANGED sideVars

(***************************************************************************)
(* _run_training_pipeline lines 945-1146: the teacher.  Cached soft labels *)
(* replace it; otherwise it comes from the config, else from the store     *)
(* through inferred_db_path; an api-backed or unresolvable teacher is      *)
(* warned about and dropped.  Then the loader, optimizer and counters.     *)
(***************************************************************************)
TeacherFromStore(spec_cfg, meta, s) ==
  LET inferred == InferredDbPath(meta)
      asked    == spec_cfg = Absent /\ Truthy(inferred)
      known    == asked /\ s.teacher # "none"
  IN  [opens |-> (IF asked THEN 1 ELSE 0) + (IF known THEN 1 ELSE 0),
       spec  |-> IF known /\ s.teacher = "local" THEN "store/teacher" ELSE spec_cfg,
       warn  |-> IF ~known \/ s.teacher = "local" THEN <<>>
                 ELSE IF s.teacher = "api"
                 THEN <<TeacherWarn("teacher is api-backed", "teacher-1")>>
                 ELSE <<TeacherWarn("teacher model could not be resolved", "teacher-1")>>]

ResolveTeacher ==
  /\ Running /\ prog = "train" /\ pc = "resolve_teacher"
  /\ IF run.has_cached
     THEN /\ Emit(Status("info", "Using cached soft labels - skipping teacher model loading"))
          /\ run' = [run EXCEPT !.teacher_logits_ok = TRUE]
          /\ Goto("next_batch")
          /\ UNCHANGED <<store, store_opens>>
     ELSE IF run.mode \notin {"knowledge_distillation", "hybrid"}
     THEN UNCHANGED <<events, run, store, store_opens>> /\ Goto("next_batch")
     ELSE \E s \in StoreInputs, teacher \in {"load_error", "encoder_decoder", "match", "mismatch"} :
            /\ StoreSeen(s)
            /\ LET t      == TeacherFromStore(raw.teacher_model, ds_meta, s)
                   gguf   == t.spec # Absent /\ IsGguf(t.spec)
                   spec   == IF gguf THEN Absent ELSE t.spec
                   warn1  == t.warn \o (IF gguf THEN <<Status("warn", "GGUF teacher models are not supported")>>
                                        ELSE <<>>)
                   loaded == spec # Absent
                   ok     == loaded /\ teacher = "match"
                   warn2  == (IF run.mode = "knowledge_distillation" /\ ~loaded
                              THEN <<Status("warn", "knowledge_distillation requested but teacher is unavailable")>>
                              ELSE <<>>)
                             \o (IF loaded /\ ~ok
                                 THEN <<Status("warn", "teacher/student vocab mismatch")>>
                                 ELSE <<>>)
               IN  /\ store' = IF t.opens > 0 THEN s ELSE store
                   /\ store_opens' = store_opens + t.opens
                   /\ IF loaded /\ teacher = "load_error"
                      THEN EmitAll(warn1) /\ UNCHANGED run /\ Raise("OSError")
                      ELSE IF loaded /\ teacher = "encoder_decoder"
                      THEN EmitAll(warn1) /\ UNCHANGED run /\ Raise("RuntimeError")
                      ELSE /\ EmitAll(warn1 \o warn2)
                           /\ run' = [run EXCEPT !.teacher_model = loaded,
                                                 !.teacher_logits_ok = ok]
                           /\ Goto("next_batch")
  /\ UNCHANGED <<prog, args, raw, cfg, imports, dataset, samples, ds_meta, fs, made,
                 writes, marker, marked_at_start, exit_code>>
  /\ UNCHANGED sideVars

(***************************************************************************)
(* _run_training_pipeline lines 1148-1153 and 1263-1264: the next batch of *)
(* the loader, the cancellation poll, the step counter and the budget.     *)
(***************************************************************************)
NextBatch ==
  /\ Running /\ prog = "train" /\ pc = "next_batch"
  /\ LET epoch == IF run.epoch = 0 THEN 1 ELSE run.epoch
     IN  IF run.batch < run.n_batches
         THEN IF CheckCancel
              THEN run' = [run EXCEPT !.polls = Polled(@)] /\ Raise("CancelledError")
              ELSE /\ run' = [run EXCEPT !.epoch = epoch, !.batch = @ + 1,
                                         !.global_step = @ + 1, !.polls = Polled(@)]
                   /\ IF run.global_step + 1 > run.max_steps
                      THEN Goto("poll_validation")
                      ELSE Goto("train_batch")
         ELSE IF epoch < run.epochs
         THEN run' = [run EXCEPT !.epoch = epoch + 1, !.batch = 0] /\ Goto("next_batch")
         ELSE UNCHANGED run /\ Goto("poll_validation")
  /\ UNCHANGED <<prog, args, raw, cfg, imports, store, dataset, samples, ds_meta, events,
                 fs, made, writes, marker, marked_at_start, store_opens, exit_code>>
  /\ UNCHANGED sideVars

(***************************************************************************)
(* _run_training_pipeline lines 1155-1261: forward, the loss of the mode,  *)
(* backward, the optimizer step every grad_accum batches, the progress     *)
(* event every emit_every batches.                                         *)
(***************************************************************************)
KdIgnoresVocabulary(r) ==
  /\ r.mode \in {"knowledge_distillation", "hybrid"}
  /\ r.teacher_model

KdComputed(r) ==
  /\ r.mode \in {"knowledge_distillation", "hybrid"}
  /\ r.teacher_logits_ok
  /\ ~r.has_cached
  /\ r.teacher_model

LossOf(r) ==
  LET usable == r.teacher_model /\ r.teacher_logits_ok
  IN  CASE r.mode = "fine_tune" -> "supervised"
        [] r.mode = "knowledge_distillation" ->
             IF usable THEN "distillation" ELSE "supervised"
        [] OTHER -> IF usable THEN "blend" ELSE "blend_supervised"

(***************************************************************************)
(* _run_training_pipeline lines 853-870: the mixing coefficient, in        *)
(* hundredths.  A key that is missing or holds 0 is replaced ("or"): the   *)
(* end value by 0.5, the start value by the end value, the warm-up length  *)
(* by 0.  The inputs explored keep the interpolation exact.                *)
(***************************************************************************)
AlphaUnit == 2 * DefaultAlpha

alpha_end(hp) == OrInt(hp.alpha, DefaultAlpha)

alpha_start(hp) == OrInt(hp.alpha_start, alpha_end(hp))

alpha_warmup(hp) == OrInt(hp.alpha_warmup_steps, 0)

alpha_for_step(mode, hp, step) ==
  IF mode = "fine_tune" THEN 0
  ELSE IF alpha_warmup(hp) <= 0 THEN alpha_end(hp)
  ELSE alpha_start(hp)
         + ((alpha_end(hp) - alpha_start(hp)) * Min(alpha_warmup(hp), step))
             \div alpha_warmup(hp)

EmitsEveryOther(step, emit_every) == step % Max(2, emit_every) = 0

EmitsAt(step, emit_every) == step % Max(1, emit_every) = 0

UpdateEveryBatch(global_step, grad_accum) == 1

(***************************************************************************)
(* Lines 1220-1223 and 1234-1261: the accumulators as the number of        *)
(* batches whose losses they hold.  The running ones are reset by each     *)
(* progress emission, which reports them divided by max(1, emit_every).    *)
(***************************************************************************)
NeverReset(count, global_step, emit_every) == count + 1

running_after(count, global_step, emit_every) ==
  IF EmitsAt(global_step, emit_every) THEN 0 ELSE count + 1

total_after(count) == count + 1

(* Line 1125: the number of updates the scheduler is configured with.      *)
total_optim_steps(max_steps, epochs, n_batches, grad_accum) ==
  Max(1, (Min(max_steps, epochs * n_batches) + grad_accum - 1) \div grad_accum)

OptimizerSteps(global_step, grad_accum) ==
  IF global_step % grad_accum = 0 THEN 1 ELSE 0

(***************************************************************************)
(* Variant: a hybrid loss that keeps the alpha share for the distillation  *)
(* loss also when no teacher is usable.                                    *)
(***************************************************************************)
LossWithoutFallback(r, alpha) ==
  LET usable == r.teacher_model /\ r.teacher_logits_ok
  IN  CASE r.mode = "fine_tune" -> [ce |-> AlphaUnit, kd |-> 0]
        [] r.mode = "knowledge_distillation" ->
             IF usable THEN [ce |-> 0, kd |-> AlphaUnit] ELSE [ce |-> AlphaUnit, kd |-> 0]
        [] OTHER -> [ce |-> AlphaUnit - alpha, kd |-> IF usable THEN alpha ELSE 0]

(***************************************************************************)
(* _run_training_pipeline lines 1212-1217: the loss as weights, in         *)
(* hundredths, of the supervised loss ce and the distillation loss kd.     *)
(***************************************************************************)
LossWeights(r, alpha) ==
  LET usable == r.teacher_model /\ r.teacher_logits_ok
  IN  CASE r.mode = "fine_tune" -> [ce |-> AlphaUnit, kd |-> 0]
        [] r.mode = "knowledge_distillation" ->
             IF usable THEN [ce |-> 0, kd |-> AlphaUnit] ELSE [ce |-> AlphaUnit, kd |-> 0]
        [] OTHER ->
             [ce |-> (AlphaUnit - alpha) + (IF usable THEN 0 ELSE alpha),
              kd |-> IF usable THEN alpha ELSE 0]

TrainBatch ==
  /\ Running /\ prog = "train" /\ pc = "train_batch"
  /\ run' = [run EXCEPT !.forwards = @ + 1,
                        !.loss = LossOf(run),
                        !.kd_loss = KdComputed(run),
                        !.alpha = alpha_for_step(run.mode, run.hp, run.global_step),
                        !.loss_ce = LossWeights(run, alpha_for_step(run.mode, run.hp,
                                                                    run.global_step)).ce,
                        !.loss_kd = LossWeights(run, alpha_for_step(run.mode, run.hp,
                                                                    run.global_step)).kd,
                        !.optim_step = @ + OptimizerSteps(run.global_step, run.grad_accum),
                        !.running_count = running_after(@, run.global_step,
                                                        cfg.emit_every),
                        !.total_count = total_after(@)]
  /\ EmitAll((IF run.mode \in {"knowledge_distillation", "hybrid"}
                 /\ run.teacher_logits_ok /\ run.has_cached
              THEN <<Status("debug", "Using cached soft labels mode")>> ELSE <<>>)
             \o (IF EmitsAt(run.global_step, cfg.emit_every)
                 THEN <<TrainProgress(run.global_step,
                                      alpha_for_step(run.mode, run.hp, run.global_step))>>
                 ELSE <<>>))
  /\ Goto("next_batch")
  /\ UNCHANGED <<prog, args, raw, cfg, imports, store, dataset, samples, ds_meta, fs,
                 made, writes, marker, marked_at_start, store_opens, exit_code>>
  /\ UNCHANGED sideVars

(***************************************************************************)
(* _run_training_pipeline line 1267 and line 1310: the polls before the    *)
(* validation pass and before the export.                                  *)
(***************************************************************************)
PollValidation ==
  /\ Running /\ prog = "train" /\ pc = "poll_validation"
  /\ IF CheckCancel THEN Raise("CancelledError") ELSE Goto("validate")
  /\ UNCHANGED <<prog, args, raw, cfg, imports, store, dataset, samples, ds_meta, run,
                 events, fs, made, writes, marker, marked_at_start, store_opens, exit_code>>
  /\ UNCHANGED sideVars

PollExport ==
  /\ Running /\ prog = "train" /\ pc = "poll_export"
  /\ IF CheckCancel THEN Raise("CancelledError") ELSE Goto("export")
  /\ UNCHANGED <<prog, args, raw, cfg, imports, store, dataset, samples, ds_meta, run,
                 events, fs, made, writes, marker, marked_at_start, store_opens, exit_code>>
  /\ UNCHANGED sideVars

(***************************************************************************)
(* _run_training_pipeline lines 1268-1307: the inference-only pass over    *)
(* the val split and its metric event.                                     *)
(***************************************************************************)
Validate ==
  /\ Running /\ prog = "train" /\ pc = "validate"
  /\ IF samples.val > 0
     THEN /\ run' = [run EXCEPT !.val_loss = TRUE]
          /\ Emit(Event("metric", Absent, "val_loss", 0, Absent, Absent))
     ELSE UNCHANGED <<run, events>>
  /\ Goto("poll_export")
  /\ UNCHANGED <<prog, args, raw, cfg, imports, store, dataset, samples, ds_meta, fs,
                 made, writes, marker, marked_at_start, store_opens, exit_code>>
  /\ UNCHANGED sideVars

(***************************************************************************)
(* Variant: an export intent in which the format name wins over the flags. *)
(***************************************************************************)
FormatWins(hp) ==
  [save_adapter |-> Or(hp.export_format, "adapter") = "adapter",
   save_merged  |-> Or(hp.export_format, "adapter") # "adapter",
   want_gguf    |-> Or(hp.export_format, "adapter") = "gguf"]

(***************************************************************************)
(* _run_training_pipeline lines 1311-1343: the artifact forms to save.     *)
(***************************************************************************)
ExportIntent(hp) ==
  LET export_format == Or(hp.export_format, "adapter")
      has_explicit_save_flags ==
        \E k \in {hp.save_adapter, hp.saveAdapter, hp.save_merged_model,
                  hp.saveMergedModel} : k # Absent
      flag_adapter == Truthy(GetOr(hp.save_adapter, GetOr(hp.saveAdapter, PyTrue)))
      flag_merged  == Truthy(GetOr(hp.save_merged_model,
                                   GetOr(hp.saveMergedModel, PyFalse)))
  IN  IF has_explicit_save_flags
      THEN [save_adapter |-> flag_adapter, save_merged |-> flag_merged, want_gguf |-> FALSE]
      ELSE CASE export_format = "adapter" ->
                  [save_adapter |-> TRUE, save_merged |-> FALSE, want_gguf |-> FALSE]
             [] export_format = "merged_model" ->
                  [save_adapter |-> FALSE, save_merged |-> TRUE, want_gguf |-> FALSE]
             [] export_format = "gguf" ->
                  [save_adapter |-> FALSE, save_merged |-> TRUE, want_gguf |-> TRUE]
             [] OTHER ->
                  [save_adapter |-> flag_adapter, save_merged |-> flag_merged,
                   want_gguf |-> FALSE]

(***************************************************************************)
(* _run_training_pipeline lines 1345-1370: the saves, in order.  Only a    *)
(* PEFT-wrapped model has merge_and_unload; when nothing was saved the     *)
(* full model is saved as merged_model.                                    *)
(***************************************************************************)
SavesWithoutFallback(intent, wrapped) ==
  (IF intent.save_adapter THEN <<"adapter">> ELSE <<>>)
    \o (IF intent.save_merged /\ wrapped THEN <<"merged_model">> ELSE <<>>)

SavesOf(intent, wrapped) ==
  LET first  == IF intent.save_adapter THEN <<"adapter">> ELSE <<>>
      second == IF intent.save_merged /\ wrapped THEN <<"merged_model">> ELSE <<>>
  IN  IF first \o second = <<>> THEN <<"merged_model">> ELSE first \o second

RECURSIVE Saved(_, _, _)
Saved(files, dir, forms) ==
  IF forms = <<>> THEN files
  ELSE Saved([files EXCEPT ![dir][Head(forms)] = "saved"], dir, Tail(forms))

Export ==
  /\ Running /\ prog = "train" /\ pc = "export"
  /\ LET intent == ExportIntent(run.hp)
         saves  == SavesOf(intent, run.wrapped)
     IN  \E n \in 0..Len(saves) :
           /\ made' = made \cup {cfg.run_dir}
           /\ fs' = Saved(fs, cfg.run_dir, SubSeq(saves, 1, n))
           /\ IF n < Len(saves)
              THEN /\ EmitAll([i \in 1..n |-> Artifact(saves[i], cfg.run_dir, saves[i])])
                   /\ Raise("OSError")
              ELSE /\ EmitAll([i \in 1..n |-> Artifact(saves[i], cfg.run_dir, saves[i])]
                              \o (IF intent.want_gguf
                                  THEN <<Status("warn", "GGUF export requested but not implemented")>>
                                  ELSE <<>>))
                   /\ Goto("write_result")
  /\ UNCHANGED <<prog, args, raw, cfg, imports, store, dataset, samples, ds_meta, run,
                 writes, marker, marked_at_start, store_opens, exit_code>>
  /\ UNCHANGED sideVars

(***************************************************************************)
(* _run_training_pipeline lines 1381-1404: result.json, its artifact       *)
(* event, return True.                                                     *)
(***************************************************************************)
WriteResult ==
  /\ Running /\ prog = "train" /\ pc = "write_result"
  /\ \E ok \in BOOLEAN :
       IF ok
       THEN /\ Persist(cfg.run_dir, "result.json", "completed")
            /\ Emit(Artifact("result", cfg.run_dir, "result.json"))
            /\ run' = [run EXCEPT !.result_steps = run.global_step]
            /\ Goto("complete")
       ELSE UNCHANGED <<made, fs, writes, events, run>> /\ Raise("OSError")
  /\ UNCHANGED <<prog, args, raw, cfg, imports, store, dataset, samples, ds_meta,
                 marker, marked_at_start, store_opens, exit_code>>
  /\ UNCHANGED sideVars

(***************************************************************************)
(* main lines 1538-1547 and _run_stub_training lines 647-648.              *)
(***************************************************************************)
StartStub ==
  /\ Running /\ prog = "train" /\ pc = "stub_start"
  /\ IF ~imports.torch
     THEN Emit(Status("warn", "torch not found; running in stub mode"))
     ELSE UNCHANGED events
  /\ run' = [run EXCEPT !.step = 0]
  /\ Goto("stub_loop")
  /\ UNCHANGED <<prog, args, raw, cfg, imports, store, dataset, samples, ds_meta, fs,
                 made, writes, marker, marked_at_start, store_opens, exit_code>>
  /\ UNCHANGED sideVars

(***************************************************************************)
(* _run_stub_training lines 649-650: the next step of the loop and its     *)
(* cancellation poll.                                                      *)
(***************************************************************************)
StubPoll ==
  /\ Running /\ prog = "train" /\ pc = "stub_loop"
  /\ IF run.step >= cfg.steps
     THEN UNCHANGED run /\ Goto("stub_result")
     ELSE IF CheckCancel
     THEN run' = [run EXCEPT !.polls = Polled(@)] /\ Raise("CancelledError")
     ELSE run' = [run EXCEPT !.step = @ + 1, !.polls = Polled(@)] /\ Goto("stub_step")
  /\ UNCHANGED <<prog, args, raw, cfg, imports, store, dataset, samples, ds_meta, events,
                 fs, made, writes, marker, marked_at_start, store_opens, exit_code>>
  /\ UNCHANGED sideVars

(***************************************************************************)
(* _run_stub_training lines 651-664: the simulated step and its progress   *)
(* event.                                                                  *)
(***************************************************************************)
StubStep ==
  /\ Running /\ prog = "train" /\ pc = "stub_step"
  /\ IF EmitsAt(run.step, cfg.emit_every)
     THEN Emit(Progress(run.step))
     ELSE UNCHANGED events
  /\ Goto("stub_loop")
  /\ UNCHANGED <<prog, args, raw, cfg, imports, store, dataset, samples, ds_meta, run,
                 fs, made, writes, marker, marked_at_start, store_opens, exit_code>>
  /\ UNCHANGED sideVars

(***************************************************************************)
(* _run_stub_training lines 666-690: result.json and its artifact event.   *)
(***************************************************************************)
StubResult ==
  /\ Running /\ prog = "train" /\ pc = "stub_result"
  /\ \E ok \in BOOLEAN :
       IF ok
       THEN /\ Persist(cfg.run_dir, "result.json", "completed")
            /\ Emit(Artifact("result", cfg.run_dir, "result.json"))
            /\ run' = [run EXCEPT !.result_steps = cfg.steps]
            /\ Goto("complete")
       ELSE UNCHANGED <<made, fs, writes, events, run>> /\ Raise("OSError")
  /\ UNCHANGED <<prog, args, raw, cfg, imports, store, dataset, samples, ds_meta,
                 marker, marked_at_start, store_opens, exit_code>>
  /\ UNCHANGED sideVars

(***************************************************************************)
(* main lines 1549-1557: the completed status, return 0.                   *)
(***************************************************************************)
Complete ==
  /\ Running /\ prog = "train" /\ pc = "complete"
  /\ Emit(Status("info", "trainer completed"))
  /\ exit_code' = ExitOk
  /\ pc' = "exited" /\ exc' = exc
  /\ UNCHANGED <<prog, args, raw, cfg, imports, store, dataset, samples, ds_meta, run,
                 fs, made, writes, marker, marked_at_start, store_opens>>
  /\ UNCHANGED sideVars

(***************************************************************************)
(* The host: it may create cancel.flag in the run directory at any moment  *)
(* of the run; a marker created before the process has taken its first     *)
(* step is one that exists when the run starts.  The runner never creates  *)
(* or removes the marker.                                                  *)
(***************************************************************************)
HostCreatesMarker ==
  /\ Running /\ ~marker
  /\ marker' = TRUE
  /\ marked_at_start' = (pc = "load_config")
  /\ UNCHANGED <<prog, args, raw, cfg, pc, exc, imports, store, dataset, samples,
                 ds_meta, run, events, fs, made, writes, store_opens, exit_code>>
  /\ UNCHANGED sideVars

(***************************************************************************)
(* main lines 1559-1599: except CancelledError.  The run directory and the *)
(* run id are read from raw again; an exception raised in here is caught   *)
(* by nothing and ends the process with a traceback (exit code 1).         *)
(***************************************************************************)
HandleCancelled ==
  /\ Running /\ prog = "train" /\ pc = "except" /\ exc = "CancelledError"
  /\ LET run_dir_str == CancelRunDir(raw)
     IN  IF Truthy(run_dir_str)
         THEN \E ok \in BOOLEAN :
                IF ok
                THEN /\ Persist(run_dir_str, "result.json", "cancelled")
                     /\ EmitAll(<<Artifact("result", run_dir_str, "result.json"),
                                  Status("warn", "trainer cancelled")>>)
                     /\ exit_code' = ExitCancelled
                     /\ pc' = "exited" /\ exc' = Absent
                ELSE /\ UNCHANGED <<made, fs, writes, events>>
                     /\ exit_code' = ExitCrash
                     /\ pc' = "crashed" /\ exc' = "OSError"
         ELSE /\ UNCHANGED <<made, fs, writes>>
              /\ Emit(Status("warn", "trainer cancelled"))
              /\ exit_code' = ExitCancelled
              /\ pc' = "exited" /\ exc' = Absent
  /\ UNCHANGED <<prog, args, raw, cfg, imports, store, dataset, samples, ds_meta, run,
                 marker, marked_at_start, store_opens>>
  /\ UNCHANGED sideVars

(***************************************************************************)
(* Variant: an error handler that records the failure in result.json.      *)
(***************************************************************************)
HandleErrorWithResult ==
  /\ Running /\ prog = "train" /\ pc = "except" /\ exc \notin {Absent, "CancelledError"}
  /\ Emit(ErrorStatus(exc))
  /\ IF cfg.ok
     THEN Persist(cfg.run_dir, "result.json", "error")
     ELSE UNCHANGED <<fs, made, writes>>
  /\ exit_code' = ExitError
  /\ pc' = "exited" /\ exc' = Absent
  /\ UNCHANGED <<prog, args, raw, cfg, imports, store, dataset, samples, ds_meta, run,
                 marker, marked_at_start, store_opens>>
  /\ UNCHANGED sideVars

(***************************************************************************)
(* main lines 1601-1610: except Exception.                                 *)
(***************************************************************************)
HandleError ==
  /\ Running /\ prog = "train" /\ pc = "except" /\ exc \notin {Absent, "CancelledError"}
  /\ Emit(ErrorStatus(exc))
  /\ exit_code' = ExitError
  /\ pc' = "exited" /\ exc' = Absent
  /\ UNCHANGED <<prog, args, raw, cfg, imports, store, dataset, samples, ds_meta, run,
                 fs, made, writes, marker, marked_at_start, store_opens>>
  /\ UNCHANGED sideVars

(***************************************************************************)
(* The evaluator, distill-eval.py.  main lines 758-770: read the config.   *)
(***************************************************************************)
EvalLoadConfig ==
  /\ Running /\ prog = "eval" /\ pc = "load_config"
  /\ \E r \in EvalRawInputs :
       /\ raw' = r
       /\ IF r = EmptyRaw THEN Raise("ValueError") ELSE Goto("parse_config")
  /\ UNCHANGED <<prog, args, cfg, imports, store, dataset, samples, ds_meta, run, events,
                 fs, made, writes, marker, marked_at_start, store_opens, exit_code>>
  /\ UNCHANGED sideVars

(***************************************************************************)
(* main line 772: cfg = _parse_config(raw, args.run_dir).                  *)
(***************************************************************************)
EvalParseConfig ==
  /\ Running /\ prog = "eval" /\ pc = "parse_config"
  /\ LET c == ParseEvalConfig(raw, args.run_dir)
     IN  IF c.ok
         THEN cfg' = c /\ Goto("snapshot_config")
         ELSE cfg' = cfg /\ Raise("ValueError")
  /\ UNCHANGED <<prog, args, raw, imports, store, dataset, samples, ds_meta, run, events,
                 fs, made, writes, marker, marked_at_start, store_opens, exit_code>>
  /\ UNCHANGED sideVars

(***************************************************************************)
(* main lines 773-776: create the run directory, write config.json.        *)
(***************************************************************************)
EvalSnapshotConfig ==
  /\ Running /\ prog = "eval" /\ pc = "snapshot_config"
  /\ \E ok \in BOOLEAN :
       IF ok
       THEN Persist(cfg.run_dir, "config.json", "config") /\ Goto("announce")
       ELSE UNCHANGED <<made, fs, writes>> /\ Raise("OSError")
  /\ UNCHANGED <<prog, args, raw, cfg, imports, store, dataset, samples, ds_meta, run,
                 events, marker, marked_at_start, store_opens, exit_code>>
  /\ UNCHANGED sideVars

(***************************************************************************)
(* main lines 778-799: the started status, the env event, the store path,  *)
(* _load_dataset_items (lines 301-331), the dataset event.                 *)
(***************************************************************************)
EvalLoadDataset ==
  /\ Running /\ prog = "eval" /\ pc = "announce"
  /\ \E i \in [torch : BOOLEAN, transformers : BOOLEAN], inferred \in {Absent, "t.db"},
        broken \in BOOLEAN, total \in 0..MaxLines :
       LET db_path == Or(cfg.training_db_path, inferred)
           started == <<Status("info", "evaluator started"), Plain("env")>>
       IN  /\ imports' = i
           /\ IF ~Truthy(db_path)
              THEN /\ EmitAll(started)
                   /\ UNCHANGED <<samples, ds_meta, store_opens>>
                   /\ Raise("RuntimeError")
              ELSE IF broken
              THEN /\ EmitAll(started)
                   /\ store_opens' = store_opens + 1
                   /\ UNCHANGED <<samples, ds_meta>>
                   /\ Raise("OperationalError")
              ELSE /\ EmitAll(started \o <<Plain("dataset")>>)
                   /\ store_opens' = store_opens + 1
                   /\ samples' = [NoSamples EXCEPT !.val = total]
                   /\ ds_meta' = [source |-> "db", path |-> db_path]
                   /\ Goto("eval_models")
  /\ UNCHANGED <<prog, args, raw, cfg, dataset, store, run, fs, made, writes, marker, marked_at_start,
                 exit_code>>
  /\ UNCHANGED sideVars

(***************************************************************************)
(* _evaluate lines 589-610: the import check, the model version of the     *)
(* store, _load_student_and_teacher (lines 476-553), the sample count.     *)
(***************************************************************************)
EvalLoadModels ==
  /\ Running /\ prog = "eval" /\ pc = "eval_models"
  /\ \E version \in {"missing", "gguf", "adapter_no_base", "load_error", "model"},
        teacher \in {"none", "local", "api"} :
       IF ~(imports.transformers /\ imports.torch)
       THEN UNCHANGED <<run, events, store_opens>> /\ Raise("RuntimeError")
       ELSE IF version = "missing"
       THEN /\ store_opens' = store_opens + 1
            /\ UNCHANGED <<run, events>> /\ Raise("ValueError")
       ELSE IF version = "gguf"
       THEN /\ store_opens' = store_opens + 1
            /\ UNCHANGED <<run, events>> /\ Raise("RuntimeError")
       ELSE IF version = "adapter_no_base"
       THEN /\ store_opens' = store_opens + 2
            /\ UNCHANGED <<run, events>> /\ Raise("RuntimeError")
       ELSE IF version = "load_error"
       THEN /\ store_opens' = store_opens + 2
            /\ UNCHANGED <<run, events>> /\ Raise("OSError")
       ELSE LET asked == cfg.compute_teacher_agreement /\ teacher # "none"
            IN  /\ store_opens' = store_opens + 2 + (IF asked THEN 1 ELSE 0)
                /\ IF asked /\ teacher = "api"
                   THEN Emit(TeacherWarn("teacher is api-backed; teacher agreement disabled",
                                         "teacher-1"))
                   ELSE UNCHANGED events
                /\ IF samples.val = 0
                   THEN UNCHANGED run /\ Raise("RuntimeError")
                   ELSE /\ run' = [run EXCEPT !.teacher_model = (asked /\ teacher = "local"),
                                              !.n_batches = samples.val, !.step = 0]
                        /\ Goto("eval_sample")
  /\ UNCHANGED <<prog, args, raw, cfg, imports, store, dataset, samples, ds_meta, fs,
                 made, writes, marker, marked_at_start, exit_code>>
  /\ UNCHANGED sideVars

(***************************************************************************)
(* _evaluate lines 625-712: one sample: generate, score, progress event.   *)
(***************************************************************************)
EvalSample ==
  /\ Running /\ prog = "eval" /\ pc = "eval_sample"
  /\ run.step < run.n_batches
  /\ run' = [run EXCEPT !.step = @ + 1, !.forwards = @ + 1]
  /\ Emit(Progress(run.step + 1))
  /\ Goto("eval_sample")
  /\ UNCHANGED <<prog, args, raw, cfg, imports, store, dataset, samples, ds_meta, fs,
                 made, writes, marker, marked_at_start, store_opens, exit_code>>
  /\ UNCHANGED sideVars

(***************************************************************************)
(* _evaluate lines 714-746: predictions.jsonl, metrics.json, their         *)
(* artifact events, the metric events.                                     *)
(***************************************************************************)
EvalWriteOutputs ==
  /\ Running /\ prog = "eval" /\ pc = "eval_sample"
  /\ run.step >= run.n_batches
  /\ \E written \in 0..2 :
       CASE written = 0 -> UNCHANGED <<made, fs, writes, events>> /\ Raise("OSError")
         [] written = 1 ->
              /\ Persist(cfg.run_dir, "predictions.jsonl", "predictions")
              /\ UNCHANGED events
              /\ Raise("OSError")
         [] OTHER ->
              /\ made' = made \cup {cfg.run_dir}
              /\ fs' = AtomicWrite(AtomicWrite(fs, cfg.run_dir, "predictions.jsonl", "predictions"),
                                   cfg.run_dir, "metrics.json", "metrics")
              /\ writes' = writes \o <<<<cfg.run_dir, "predictions.jsonl", "predictions">>,
                                       <<cfg.run_dir, "metrics.json", "metrics">>>>
              /\ EmitAll(<<Artifact("predictions", cfg.run_dir, "predictions.jsonl"),
                           Artifact("metrics", cfg.run_dir, "metrics.json"),
                           Event("metric", Absent, "exact_match", 0, Absent, Absent)>>)
              /\ Goto("complete")
  /\ UNCHANGED <<prog, args, raw, cfg, imports, store, dataset, samples, ds_meta, run,
                 marker, marked_at_start, store_opens, exit_code>>
  /\ UNCHANGED sideVars

(***************************************************************************)
(* main lines 803-807: the completed status, return 0.                     *)
(***************************************************************************)
EvalComplete ==
  /\ Running /\ prog = "eval" /\ pc = "complete"
  /\ Emit(Status("info", "evaluator completed"))
  /\ exit_code' = ExitOk
  /\ pc' = "exited" /\ exc' = exc
  /\ UNCHANGED <<prog, args, raw, cfg, imports, store, dataset, samples, ds_meta, run,
                 fs, made, writes, marker, marked_at_start, store_opens>>
  /\ UNCHANGED sideVars

(***************************************************************************)
(* main lines 808-813: except Exception, the only handler.                 *)
(***************************************************************************)
EvalHandleError ==
  /\ Running /\ prog = "eval" /\ pc = "except"
  /\ Emit(ErrorStatus(exc))
  /\ exit_code' = ExitError
  /\ pc' = "exited" /\ exc' = Absent
  /\ UNCHANGED <<prog, args, raw, cfg, imports, store, dataset, samples, ds_meta, run,
                 fs, made, writes, marker, marked_at_start, store_opens>>
  /\ UNCHANGED sideVars

Next ==
  \/ LoadConfig
  \/ ParseTrainConfig
  \/ SnapshotConfig
  \/ Announce
  \/ BuildDataset
  \/ SnapshotDataset
  \/ LoadSoftLabels
  \/ ResolveStudent
  \/ SetupTraining
  \/ ResolveTeacher
  \/ NextBatch
  \/ TrainBatch
  \/ PollValidation
  \/ Validate
  \/ PollExport
  \/ Export
  \/ WriteResult
  \/ StartStub
  \/ StubPoll
  \/ StubStep
  \/ StubResult
  \/ Complete
  \/ HostCreatesMarker
  \/ HandleCancelled
  \/ HandleError
  \/ EvalLoadConfig
  \/ EvalParseConfig
  \/ EvalSnapshotConfig
  \/ EvalLoadDataset
  \/ EvalLoadModels
  \/ EvalSample
  \/ EvalWriteOutputs
  \/ EvalComplete
  \/ EvalHandleError

Spec == Init /\ [][Next]_vars

(***************************************************************************)
(* SpecAtomic: _atomic_write_text (distill-train.py lines 59-64,           *)
(* distill-eval.py lines 41-45) and _atomic_write_jsonl (lines 262-268,    *)
(* 48-54), step by step, with a reader of the target path running          *)
(* concurrently.  Every file of Persisted is written through one of them.  *)
(***************************************************************************)
MainIdle ==
  /\ prog = "train"
  /\ args = [run_dir |-> Absent]
  /\ raw = EmptyRaw
  /\ cfg = NoCfg
  /\ pc = "atomic_write"
  /\ exc = Absent
  /\ imports = [torch |-> FALSE, transformers |-> FALSE]
  /\ store = NoStore
  /\ dataset = <<>>
  /\ samples = NoSamples
  /\ ds_meta = [source |-> Absent, path |-> Absent]
  /\ run = NoRun
  /\ events = <<>>
  /\ fs = [d \in Dirs |-> [f \in Files |-> Absent]]
  /\ made = {}
  /\ writes = <<>>
  /\ marker = FALSE
  /\ marked_at_start = FALSE
  /\ store_opens = 0
  /\ exit_code = NotExited

InitAtomic ==
  /\ MainIdle
  /\ wpc = "mkdir"
  /\ target \in Persisted
  /\ text \in Contents("new")
  /\ previous \in {Gone} \cup Contents("old")
  /\ entries = [n \in Names |-> IF n = target /\ previous # Gone THEN 1 ELSE 0]
  /\ inodes = IF previous = Gone THEN <<>> ELSE <<previous>>
  /\ rpc = "idle"
  /\ rfd = 0
  /\ rbuf = <<>>
  /\ seen = {}
  /\ DatasetIdle
  /\ EncodeIdle

TargetContent == IF entries[target] = 0 THEN Gone ELSE inodes[entries[target]]

(***************************************************************************)
(* open(name, "w"): a new empty file, or the existing file truncated.      *)
(***************************************************************************)
OpenForWrite(name) ==
  IF entries[name] = 0
  THEN /\ inodes' = Append(inodes, <<>>)
       /\ entries' = [entries EXCEPT ![name] = Len(inodes) + 1]
  ELSE /\ inodes' = [inodes EXCEPT ![entries[name]] = <<>>]
       /\ entries' = entries

(***************************************************************************)
(* os.replace(src, dst): dst names src's file, src is no longer a name.    *)
(***************************************************************************)
Replace(src, dst) ==
  IF src = dst THEN entries
  ELSE [entries EXCEPT ![dst] = entries[src], ![src] = 0]

(***************************************************************************)
(* path.parent.mkdir(parents=True, exist_ok=True)                          *)
(***************************************************************************)
AwMkdir ==
  /\ wpc = "mkdir"
  /\ \E ok \in BOOLEAN : wpc' = IF ok THEN "open_tmp" ELSE "failed"
  /\ UNCHANGED <<target, text, previous, entries, inodes, rpc, rfd, rbuf, seen>>
  /\ UNCHANGED <<mainVars, datasetVars, encodeVars>>

(***************************************************************************)
(* tmp = path.with_suffix(...); tmp.open("w") / the open of write_text     *)
(***************************************************************************)
AwOpenTmp ==
  /\ wpc = "open_tmp"
  /\ \E ok \in BOOLEAN :
       IF ok
       THEN OpenForWrite(TmpName(target)) /\ wpc' = "write"
       ELSE UNCHANGED <<entries, inodes>> /\ wpc' = "failed"
  /\ UNCHANGED <<target, text, previous, rpc, rfd, rbuf, seen>>
  /\ UNCHANGED <<mainVars, datasetVars, encodeVars>>

(***************************************************************************)
(* f.write(...): the next chunk reaches the temporary file.                *)
(***************************************************************************)
AwWrite ==
  /\ wpc = "write"
  /\ LET ino == entries[TmpName(target)]
     IN  /\ Len(inodes[ino]) < Len(text)
         /\ \E ok \in BOOLEAN :
              IF ok
              THEN /\ inodes' = [inodes EXCEPT ![ino] = Append(@, text[Len(@) + 1])]
                   /\ wpc' = wpc
              ELSE UNCHANGED inodes /\ wpc' = "failed"
  /\ UNCHANGED <<target, text, previous, entries, rpc, rfd, rbuf, seen>>
  /\ UNCHANGED <<mainVars, datasetVars, encodeVars>>

(***************************************************************************)
(* os.replace(tmp, path)                                                   *)
(***************************************************************************)
AwReplace ==
  /\ wpc = "write"
  /\ Len(inodes[entries[TmpName(target)]]) = Len(text)
  /\ \E ok \in BOOLEAN :
       IF ok
       THEN entries' = Replace(TmpName(target), target) /\ wpc' = "done"
       ELSE UNCHANGED entries /\ wpc' = "failed"
  /\ UNCHANGED <<target, text, previous, inodes, rpc, rfd, rbuf, seen>>
  /\ UNCHANGED <<mainVars, datasetVars, encodeVars>>

(***************************************************************************)
(* The reader (the host): open the target path, read it to the end.        *)
(***************************************************************************)
RdOpen ==
  /\ rpc = "idle"
  /\ IF entries[target] = 0
     THEN seen' = seen \cup {Gone} /\ UNCHANGED <<rpc, rfd, rbuf>>
     ELSE /\ rfd' = entries[target]
          /\ rbuf' = <<>>
          /\ rpc' = "reading"
          /\ UNCHANGED seen
  /\ UNCHANGED <<wpc, target, text, previous, entries, inodes>>
  /\ UNCHANGED <<mainVars, datasetVars, encodeVars>>

RdRead ==
  /\ rpc = "reading"
  /\ LET content == inodes[rfd]
     IN  IF Len(rbuf) < Len(content)
         THEN /\ rbuf' = Append(rbuf, content[Len(rbuf) + 1])
              /\ UNCHANGED <<rpc, rfd, seen>>
         ELSE /\ seen' = seen \cup {rbuf}
              /\ rpc' = "idle"
              /\ rfd' = 0
              /\ rbuf' = <<>>
  /\ UNCHANGED <<wpc, target, text, previous, entries, inodes>>
  /\ UNCHANGED <<mainVars, datasetVars, encodeVars>>

NextAtomic ==
  \/ AwMkdir
  \/ AwOpenTmp
  \/ AwWrite
  \/ AwReplace
  \/ RdOpen
  \/ RdRead

SpecAtomic == InitAtomic /\ [][NextAtomic]_vars

(***************************************************************************)
(* SpecDataset: the sample list from its source to the training loop, one  *)
(* TrainingSample per record, with every field kept.  Ids, prompts and     *)
(* targets are numbers (id 0 is the empty id); weights are whole numbers.  *)
(***************************************************************************)
TrainingSample(correction_id, split, weight, prompt, tgt) ==
  [correction_id |-> correction_id, split |-> split, weight |-> weight,
   prompt |-> prompt, target |-> tgt]

(***************************************************************************)
(* _build_dataset lines 286-293 (a jsonl line) and 301-307 (an inline      *)
(* item): a missing or zero weight becomes 1.0, a missing split "train".   *)
(***************************************************************************)
ObjInputs ==
  [id : {0, 1}, split : {Absent, "val"}, weight : {AbsentInt, 0, 2, 0 - 2},
   prompt : {10}, target : {20}]

SampleOfObj(obj) ==
  TrainingSample(obj.id, Or(obj.split, "train"), OrInt(obj.weight, DefaultWeight),
                 obj.prompt, obj.target)

(***************************************************************************)
(* _load_samples_from_training_db lines 216-225: a row of run_corrections  *)
(* joined with its correction.                                             *)
(***************************************************************************)
RowInputs ==
  [correction_id : {1}, split : {"train", "val"}, weight : {0 - 2, 0, 1, 2},
   prompt : {10}, corrected_output : {20}]

SampleOfRow(r) ==
  TrainingSample(r.correction_id, r.split, r.weight, r.prompt, r.corrected_output)

(***************************************************************************)
(* _build_dataset lines 331-339: the fallback over the n corrections of    *)
(* the store.                                                              *)
(***************************************************************************)
Corrections(n) ==
  [i \in 1..n |-> TrainingSample(i, "train", DefaultWeight, 100 + i, 200 + i)]

(***************************************************************************)
(* _deterministic_split lines 243-249: the tag of position idx (0-based).  *)
(***************************************************************************)
SplitAt(idx, n) ==
  IF idx < n_train(n) THEN "train"
  ELSE IF idx < n_train(n) + n_val(n) THEN "val"
  ELSE "test"

(***************************************************************************)
(* rng.shuffle: the order a seed yields is one of the list's orders; the   *)
(* orders explored are the rotations of the list and their reversals.      *)
(***************************************************************************)
Orders(n) ==
  { [i \in 1..n |-> IF rev THEN n + 1 - (((i - 1 + k) % n) + 1) ELSE ((i - 1 + k) % n) + 1]
      : k \in 0..(n - 1), rev \in BOOLEAN }

InitDataset ==
  /\ MainIdle
  /\ AtomicIdle
  /\ EncodeIdle
  /\ dpc = "build"
  /\ dsamples = <<>>
  /\ shuffled = <<>>
  /\ out = <<>>
  /\ rows_written = <<>>
  /\ batch_weights = <<>>

(***************************************************************************)
(* _build_dataset lines 277-311: the jsonl and inline sources.             *)
(***************************************************************************)
DsBuildObjects ==
  /\ dpc = "build"
  /\ \E objs \in SeqsUpTo(ObjInputs, MaxLines) :
       dsamples' = [i \in 1..Len(objs) |-> SampleOfObj(objs[i])]
  /\ dpc' = "snapshot"
  /\ UNCHANGED <<shuffled, out, rows_written, batch_weights>>
  /\ UNCHANGED <<mainVars, atomicVars, encodeVars>>

(***************************************************************************)
(* _build_dataset lines 313-346: the store; with no row for the run, every *)
(* correction, split by _deterministic_split when the config has a seed.   *)
(***************************************************************************)
DsLoadRows ==
  /\ dpc = "build"
  /\ \E rows \in SeqsUpTo(RowInputs, MaxLines) :
       IF rows # <<>>
       THEN /\ dsamples' = [i \in 1..Len(rows) |-> SampleOfRow(rows[i])]
            /\ dpc' = "snapshot"
       ELSE \E n \in 0..MaxItems, seeded \in BOOLEAN :
              /\ dsamples' = Corrections(n)
              /\ dpc' = IF seeded THEN "shuffle" ELSE "snapshot"
  /\ UNCHANGED <<shuffled, out, rows_written, batch_weights>>
  /\ UNCHANGED <<mainVars, atomicVars, encodeVars>>

(***************************************************************************)
(* _deterministic_split lines 236-242: the shuffled copy, the empty out.   *)
(***************************************************************************)
DsShuffle ==
  /\ dpc = "shuffle"
  /\ IF dsamples = <<>>
     THEN shuffled' = <<>>
     ELSE \E order \in Orders(Len(dsamples)) :
            shuffled' = [i \in 1..Len(dsamples) |-> dsamples[order[i]]]
  /\ out' = <<>>
  /\ dpc' = "tag"
  /\ UNCHANGED <<dsamples, rows_written, batch_weights>>
  /\ UNCHANGED <<mainVars, atomicVars, encodeVars>>

(***************************************************************************)
(* _deterministic_split lines 243-258: one turn of the loop.               *)
(***************************************************************************)
DsTag ==
  /\ dpc = "tag"
  /\ Len(out) < Len(shuffled)
  /\ LET idx == Len(out)
         s   == shuffled[idx + 1]
     IN  out' = Append(out, TrainingSample(s.correction_id, SplitAt(idx, Len(shuffled)),
                                           s.weight, s.prompt, s.target))
  /\ UNCHANGED <<dpc, dsamples, shuffled, rows_written, batch_weights>>
  /\ UNCHANGED <<mainVars, atomicVars, encodeVars>>

(***************************************************************************)
(* _deterministic_split line 259 and _build_dataset line 342: the split    *)
(* list replaces the sample list.                                          *)
(***************************************************************************)
DsSplitReturn ==
  /\ dpc = "tag"
  /\ Len(out) = Len(shuffled)
  /\ dsamples' = out
  /\ dpc' = "snapshot"
  /\ UNCHANGED <<shuffled, out, rows_written, batch_weights>>
  /\ UNCHANGED <<mainVars, atomicVars, encodeVars>>

(***************************************************************************)
(* main lines 1476-1491: one row of dataset.jsonl per sample.              *)
(***************************************************************************)
DsSnapshot ==
  /\ dpc = "snapshot"
  /\ rows_written' = dsamples
  /\ dpc' = "collate"
  /\ UNCHANGED <<dsamples, shuffled, out, batch_weights>>
  /\ UNCHANGED <<mainVars, atomicVars, encodeVars>>

(***************************************************************************)
(* _run_training_pipeline lines 788-792, 1056-1066 and 1097-1109: the      *)
(* train samples and the weights of their batches.                         *)
(***************************************************************************)
DsCollate ==
  /\ dpc = "collate"
  /\ LET IsTrain(s) == s.split = "train"
         train_samples == SelectSeq(dsamples, IsTrain)
     IN  batch_weights' = [i \in 1..Len(train_samples) |-> train_samples[i].weight]
  /\ dpc' = "done"
  /\ UNCHANGED <<dsamples, shuffled, out, rows_written>>
  /\ UNCHANGED <<mainVars, atomicVars, encodeVars>>

NextDataset ==
  \/ DsBuildObjects
  \/ DsLoadRows
  \/ DsShuffle
  \/ DsTag
  \/ DsSplitReturn
  \/ DsSnapshot
  \/ DsCollate

SpecDataset == InitDataset /\ [][NextDataset]_vars

(***************************************************************************)
(* encode_example (distill-train.py lines 1066-1087) on token ids: the     *)
(* tokenizer's output for the prompt, the separator and the target is the  *)
(* input.  Token ids are small naturals; the separator and the             *)
(* end-of-sequence token have ids of their own.                            *)
(***************************************************************************)
IgnoreIndex == 0 - 100

Vocabulary == {1, 2}

SepInputs == {<<>>, <<3>>}

EosInputs == {AbsentInt, 4}

TokenSeqs == UNION {[1..n -> Vocabulary] : n \in 0..MaxTokens}

InitEncode ==
  /\ MainIdle
  /\ AtomicIdle
  /\ DatasetIdle
  /\ epc = "encode"
  /\ prompt_ids \in TokenSeqs
  /\ sep_ids \in SepInputs
  /\ target_ids \in TokenSeqs
  /\ add_eos \in BOOLEAN
  /\ eos_id \in EosInputs
  /\ max_seq_len \in 1..MaxSeqLen
  /\ prompt_full = <<>>
  /\ target_full = <<>>
  /\ encoded = NoEncoding

(***************************************************************************)
(* Python slices: seq[:n] and seq[-n:] (seq[-0:] is the whole list).       *)
(* KeepHead is the variant that truncates the prompt from its end.         *)
(***************************************************************************)
KeepFirst(seq, n) == SubSeq(seq, 1, Min(n, Len(seq)))

KeepHead(seq, n) == SubSeq(seq, 1, Min(n, Len(seq)))

KeepLast(seq, n) ==
  IF n = 0 THEN seq ELSE SubSeq(seq, Max(1, Len(seq) - n + 1), Len(seq))

Repeat(x, n) == [i \in 1..n |-> x]

(***************************************************************************)
(* Lines 1067-1073: target_full and prompt_full.                           *)
(***************************************************************************)
EncConcat ==
  /\ epc = "encode"
  /\ target_full' = target_ids \o (IF add_eos /\ eos_id # AbsentInt
                                   THEN <<eos_id>> ELSE <<>>)
  /\ prompt_full' = prompt_ids \o sep_ids
  /\ epc' = "truncate"
  /\ UNCHANGED <<prompt_ids, sep_ids, target_ids, add_eos, eos_id, max_seq_len, encoded>>
  /\ UNCHANGED <<mainVars, atomicVars, datasetVars>>

(***************************************************************************)
(* Lines 1076-1082: truncate, mostly from the prompt side.                 *)
(***************************************************************************)
EncTruncate ==
  /\ epc = "truncate"
  /\ IF Len(prompt_full) + Len(target_full) > max_seq_len
     THEN IF Len(target_full) >= max_seq_len
          THEN /\ target_full' = KeepFirst(target_full, max_seq_len)
               /\ prompt_full' = <<>>
          ELSE LET keep_prompt == max_seq_len - Len(target_full)
               IN  /\ prompt_full' = KeepLast(prompt_full, keep_prompt)
                   /\ target_full' = target_full
     ELSE UNCHANGED <<prompt_full, target_full>>
  /\ epc' = "label"
  /\ UNCHANGED <<prompt_ids, sep_ids, target_ids, add_eos, eos_id, max_seq_len, encoded>>
  /\ UNCHANGED <<mainVars, atomicVars, datasetVars>>

(***************************************************************************)
(* Lines 1084-1087: input_ids, labels, attention mask; return.             *)
(***************************************************************************)
EncReturn ==
  /\ epc = "label"
  /\ encoded' = [input_ids |-> prompt_full \o target_full,
                 labels |-> Repeat(IgnoreIndex, Len(prompt_full)) \o target_full,
                 attention_mask |-> Repeat(1, Len(prompt_full \o target_full))]
  /\ epc' = "returned"
  /\ UNCHANGED <<prompt_ids, sep_ids, target_ids, add_eos, eos_id, max_seq_len,
                 prompt_full, target_full>>
  /\ UNCHANGED <<mainVars, atomicVars, datasetVars>>

NextEncode ==
  \/ EncConcat
  \/ EncTruncate
  \/ EncReturn

SpecEncode == InitEncode /\ [][NextEncode]_vars

(***************************************************************************)
(* C6: every file of Persisted is written to a temporary sibling and       *)
(* renamed over the target: at every interleaving a reader of the target   *)
(* path reads no file, the previous complete content or the new complete   *)
(* content, never a partial file; the target path always holds one of the  *)
(* two; a write that failed before the rename left the target as it was;   *)
(* a write that returned left the new content.                             *)
(***************************************************************************)
C6_AtomicWrite ==
  /\ seen \subseteq {Gone, previous, text}
  /\ TargetContent \in {previous, text}
  /\ wpc = "failed" => TargetContent = previous
  /\ wpc = "done" => TargetContent = text

C6_Witness ==
  /\ wpc = "done"
  /\ previous # Gone
  /\ previous \in seen
  /\ rpc = "reading" /\ inodes[rfd] = previous /\ rbuf # <<>>
  /\ TargetContent = text

(***************************************************************************)
(* Vocabulary of the properties.                                           *)
(***************************************************************************)
Terminated == pc \in {"exited", "crashed"}

IsResult(w) == w[2] = "result.json"

ResultWrites == SelectSeq(writes, IsResult)

ObservedCancel == pc = "except" /\ exc = "CancelledError"

IsProgress(e) == e.kind = "progress"

ProgressEvents == SelectSeq(events, IsProgress)

LastEvent == events[Len(events)]

IsTerminalStatus(e) ==
  /\ e.kind = "status"
  /\ \/ e.level = "error" /\ e.file = "trace"
     \/ e.msg \in {"trainer completed", "trainer cancelled", "evaluator completed"}

C1_ResultWritten ==
  /\ Len(ResultWrites) <= 1
  /\ ObservedCancel => ResultWrites = <<>>
  /\ pc = "crashed" => ResultWrites = <<>>
  /\ exit_code = ExitCancelled =>
       ResultWrites = IF Truthy(CancelRunDir(raw))
                      THEN <<<<CancelRunDir(raw), "result.json", "cancelled">>>>
                      ELSE <<>>
  /\ exit_code = ExitOk => ResultWrites = <<<<cfg.run_dir, "result.json", "completed">>>>

C2_AsStated ==
  (prog = "train" /\ exit_code = ExitCancelled) =>
    /\ Len(SelectSeq(events, IsTerminalStatus)) = 1
    /\ ResultWrites = <<<<cfg.run_dir, "result.json", "cancelled">>>>
    /\ \E i \in 1..Len(events) : events[i] = Artifact("result", cfg.run_dir, "result.json")

(***************************************************************************)
(* C3 as stated: the trainer exits with 0 exactly when the run completed,  *)
(* with 130 exactly when it ended by cooperative cancellation, with 2 on   *)
(* every other failure, and with nothing else; the evaluator exits with 0  *)
(* on success and with 2 on every failure.                                 *)
(***************************************************************************)
RunCompleted ==
  events # <<>> /\ LastEvent.msg \in {"trainer completed", "evaluator completed"}

EndedByCancel ==
  pc = "crashed" \/ (events # <<>> /\ LastEvent.msg = "trainer cancelled")

C3_AsStated ==
  Terminated =>
    IF prog = "train"
    THEN /\ exit_code \in {ExitOk, ExitCancelled, ExitError}
         /\ exit_code = ExitOk <=> RunCompleted
         /\ exit_code = ExitCancelled <=> EndedByCancel
         /\ exit_code = ExitError <=> (~RunCompleted /\ ~EndedByCancel)
    ELSE /\ exit_code \in {ExitOk, ExitError}
         /\ exit_code = ExitOk <=> RunCompleted

(***************************************************************************)
(* C4 as stated: whatever exception is raised after argument parsing, the  *)
(* cancellation report included, the run ends with a terminal status event *)
(* as its last word and with one of the exit codes main returns.           *)
(***************************************************************************)
C4_AsStated ==
  Terminated =>
    /\ events # <<>>
    /\ IsTerminalStatus(LastEvent)
    /\ exc = Absent
    /\ exit_code # ExitCrash

(***************************************************************************)
(* C5: a job descriptor that lacks a required field (trainer: run_id,      *)
(* run_dir; evaluator: eval_id, version_id, dataset_id, run_dir; under     *)
(* both spellings, and for run_dir with no --run-dir either) fails in      *)
(* normalization: no directory is created, no file is written, the store   *)
(* is not opened, and the run ends with one error status event and exit    *)
(* code 2.                                                                 *)
(***************************************************************************)
Lacks(a, b) == a = Absent /\ b = Absent

MissingRequired ==
  IF prog = "train"
  THEN \/ Lacks(raw.run_id, raw.runId)
       \/ Lacks(raw.run_dir, raw.runDir) /\ args.run_dir = Absent
  ELSE \/ Lacks(raw.eval_id, raw.evalId)
       \/ Lacks(raw.version_id, raw.versionId)
       \/ Lacks(raw.dataset_id, raw.datasetId)
       \/ Lacks(raw.run_dir, raw.runDir) /\ args.run_dir = Absent

C5_FailsBeforeIO ==
  (pc \notin {"load_config", "atomic_write"} /\ MissingRequired) =>
    /\ pc \in {"parse_config", "except", "exited"}
    /\ cfg = NoCfg
    /\ made = {} /\ writes = <<>> /\ store_opens = 0
    /\ \A d \in Dirs, f \in Files : fs[d][f] = Absent
    /\ pc = "except" => exc = "ValueError"
    /\ Terminated => (exit_code = ExitError /\ events = <<ErrorStatus("ValueError")>>)

C5_Witness ==
  /\ prog = "eval" /\ pc = "exited" /\ exit_code = ExitError
  /\ raw.eval_id = "e1" /\ raw.dataset_id = "d1" /\ raw.run_dir = "A"
  /\ raw.version_id = Absent
  /\ args.run_dir = "B"
  /\ made = {}

(***************************************************************************)
(* C7 as stated: a fine_tune run over inline samples with step budget      *)
(* S >= 1, default emit cadence and no marker ends with exit code 0, at    *)
(* least one progress event, every progress step in 1..S, and result.json  *)
(* of status "completed" (read on the runs that do not fail with an error  *)
(* of their environment or samples).                                       *)
(***************************************************************************)
C7_Scenario ==
  /\ prog = "train" /\ Terminated /\ ~marker
  /\ cfg # NoCfg
  /\ cfg.mode = "fine_tune"
  /\ raw.dataset_source = "inline"
  /\ cfg.steps >= 1
  /\ raw.emit_every = AbsentInt

ProgressWithin(budget) ==
  /\ ProgressEvents # <<>>
  /\ \A i \in 1..Len(ProgressEvents) : ProgressEvents[i].step \in 1..budget

C7_Budget == IF run.real THEN run.max_steps ELSE cfg.steps

LacksField(lines) == \E i \in 1..Len(lines) : lines[i] \in {"no_prompt", "no_target"}

C8_JsonlFatal ==
  (prog = "train" /\ cfg # NoCfg /\ pc # "atomic_write"
     /\ DatasetSource(cfg) = "jsonl" /\ LacksField(dataset)) =>
    /\ pc \in {"except", "exited"}
    /\ pc = "except" => exc \in {"KeyError", "ValueError"}
    /\ \A i \in 1..Len(writes) : writes[i][2] \notin {"dataset.jsonl", "dataset_summary.json"}
    /\ \A d \in Dirs : fs[d]["dataset.jsonl"] = Absent /\ fs[d]["dataset_summary.json"] = Absent
    /\ Terminated =>
         /\ exit_code = ExitError
         /\ LastEvent \in {ErrorStatus("KeyError"), ErrorStatus("ValueError")}

C8_Witness ==
  /\ prog = "train" /\ pc = "exited" /\ exit_code = ExitError
  /\ dataset = <<"train", "no_prompt">>
  /\ LastEvent = ErrorStatus("KeyError")
  /\ fs["A"]["config.json"] = "config"

(***************************************************************************)
(* C9 as stated: in knowledge_distillation mode, when the run's teacher in *)
(* the store is api-hosted, whatever the dataset source and the way the    *)
(* store path is configured, a run of the real pipeline that completes has *)
(* emitted a warn status carrying the teacher model id and trained every   *)
(* batch on the supervised loss.                                           *)
(***************************************************************************)
C9_AsStated ==
  (prog = "train" /\ exit_code = ExitOk /\ run.real
     /\ cfg.mode = "knowledge_distillation"
     /\ raw.teacher_model = Absent /\ ~run.has_cached
     /\ store.state = "ok" /\ store.teacher = "api") =>
    /\ \E i \in 1..Len(events) :
         /\ events[i].kind = "status" /\ events[i].level = "warn"
         /\ events[i].file = "teacher-1"
    /\ run.loss = "supervised"

(***************************************************************************)
(* C10 as stated: every training run that ends with status completed, in   *)
(* the real and in the stub pipeline, has left an adapter or merged_model  *)
(* artifact in the run directory and emitted its artifact event before     *)
(* result.json is written.                                                 *)
(***************************************************************************)
Deployable == {"adapter", "merged_model"}

DeployableLeft ==
  \E form \in Deployable :
    /\ fs[cfg.run_dir][form] = "saved"
    /\ \E i \in 1..Len(events) : events[i] = Artifact(form, cfg.run_dir, form)

C10_AsStated ==
  (prog = "train" /\ cfg # NoCfg
     /\ (pc \in {"write_result", "stub_result", "complete"}
           \/ fs[cfg.run_dir]["result.json"] = "completed")) =>
    DeployableLeft

(***************************************************************************)
(* C10 amended: every run of the real pipeline that ends with status       *)
(* completed has left an adapter or merged_model artifact in the run       *)
(* directory and emitted its artifact event before result.json is written, *)
(* for every export configuration; the stub pipeline saves no model.       *)
(***************************************************************************)
C10_RealPipeline ==
  (prog = "train" /\ cfg # NoCfg
     /\ (pc \in {"write_result", "stub_result", "complete"}
           \/ fs[cfg.run_dir]["result.json"] = "completed")) =>
    IF run.real THEN DeployableLeft
    ELSE \A form \in Deployable : fs[cfg.run_dir][form] = Absent

C10_Witness ==
  /\ prog = "train" /\ exit_code = ExitOk /\ run.real
  /\ ExportIntent(run.hp).save_merged /\ ~ExportIntent(run.hp).save_adapter
  /\ ~run.wrapped
  /\ fs[cfg.run_dir]["merged_model"] = "saved"
  /\ fs[cfg.run_dir]["result.json"] = "completed"


(***************************************************************************)
(* C11.  Vocabulary: the export configuration of the run and what the      *)
(* export left.  An explicit flag is one of the four keys save_adapter,    *)
(* saveAdapter, save_merged_model, saveMergedModel; the snake_case key is  *)
(* read first.                                                             *)
(***************************************************************************)
Exported == prog = "train" /\ run.real /\ pc = "write_result"

FormsSaved == {form \in Deployable : fs[cfg.run_dir][form] = "saved"}

FlagPresent ==
  \E k \in {run.hp.save_adapter, run.hp.saveAdapter, run.hp.save_merged_model,
            run.hp.saveMergedModel} : k # Absent

AdapterFlag ==
  IF run.hp.save_adapter # Absent THEN run.hp.save_adapter = PyTrue
  ELSE IF run.hp.saveAdapter # Absent THEN run.hp.saveAdapter = PyTrue
  ELSE TRUE

MergedFlag ==
  IF run.hp.save_merged_model # Absent THEN run.hp.save_merged_model = PyTrue
  ELSE IF run.hp.saveMergedModel # Absent THEN run.hp.saveMergedModel = PyTrue
  ELSE FALSE

GgufWarned ==
  \E i \in 1..Len(events) :
    events[i] = Status("warn", "GGUF export requested but not implemented")

FormatSelects ==
  ~FlagPresent =>
    /\ run.hp.export_format \in {Absent, "adapter"} =>
         FormsSaved = {"adapter"} /\ ~GgufWarned
    /\ run.hp.export_format = "merged_model" =>
         FormsSaved = {"merged_model"} /\ ~GgufWarned
    /\ run.hp.export_format = "gguf" =>
         FormsSaved = {"merged_model"} /\ GgufWarned

(***************************************************************************)
(* C11 as stated: when an explicit save flag is present the forms saved    *)
(* are a function of the flags alone (the adapter when its flag is on, the *)
(* merged model when its flag is on, the merged model when both are off),  *)
(* whatever the format name; with no flag the format name selects the      *)
(* form.  The code saves the merged model on request only from a student   *)
(* that has merge_and_unload, so two runs with the same flags (both on)    *)
(* save different forms and no function of the flags gives both.           *)
(***************************************************************************)
C11_AsStated ==
  Exported =>
    /\ FlagPresent =>
         /\ "adapter" \in FormsSaved <=> AdapterFlag
         /\ "merged_model" \in FormsSaved <=> (MergedFlag \/ ~AdapterFlag)
         /\ ~GgufWarned
    /\ FormatSelects

(***************************************************************************)
(* C11 amended: when an explicit save flag is present the forms saved are  *)
(* determined by the flags and by whether the student is adapter-wrapped   *)
(* (has merge_and_unload), and are the same for every format name: the     *)
(* adapter iff its flag is on; the merged model iff its flag is on and the *)
(* student is wrapped, or the adapter flag is off; no GGUF warning.  With  *)
(* no flag the format name selects the form: adapter (or no name) saves    *)
(* the adapter only, merged_model the merged model only, gguf the merged   *)
(* model plus a warning status.                                            *)
(***************************************************************************)
C11_FlagsWin ==
  Exported =>
    /\ FlagPresent =>
         /\ "adapter" \in FormsSaved <=> AdapterFlag
         /\ "merged_model" \in FormsSaved <=> ((MergedFlag /\ run.wrapped) \/ ~AdapterFlag)
         /\ ~GgufWarned
    /\ FormatSelects

C11_Witness ==
  /\ Exported /\ FlagPresent
  /\ run.hp.export_format = "gguf"
  /\ run.hp.save_adapter = Absent /\ run.hp.saveAdapter = PyTrue
  /\ run.hp.saveMergedModel = PyTrue /\ ~run.wrapped
  /\ FormsSaved = {"adapter"}

(***************************************************************************)
(* C12, C13.  Vocabulary: a batch of the real pipeline has just been       *)
(* processed; run.alpha is the coefficient its loss used and               *)
(* run.global_step its step.                                               *)
(***************************************************************************)
BatchProcessed == prog = "train" /\ run.real /\ pc = "next_batch" /\ run.forwards > 0

InUnitInterval(a) == 0 <= a /\ a <= AlphaUnit

(***************************************************************************)
(* C12 as stated: at every processed batch, in every mode and for every    *)
(* configured alpha, alpha_start and warm-up length, the mixing            *)
(* coefficient used in the loss and the one reported in progress events    *)
(* lie in [0,1].                                                           *)
(***************************************************************************)
C12_AsStated ==
  /\ BatchProcessed => InUnitInterval(run.alpha)
  /\ \A i \in 1..Len(events) : IsProgress(events[i]) => InUnitInterval(events[i].alpha)

(***************************************************************************)
(* C13 as stated: in knowledge_distillation and hybrid modes with a        *)
(* warm-up horizon W > 0 the coefficient is the configured start value at  *)
(* warm-up step 0, moves linearly toward the configured end value and is   *)
(* the end value at every step >= W, for every configured start and end    *)
(* value, 0 included; in fine_tune mode it is 0 at every step.             *)
(***************************************************************************)
C13_AsStated ==
  BatchProcessed =>
    LET hp   == run.hp
        W    == hp.alpha_warmup_steps
        step == run.global_step
    IN  /\ run.mode = "fine_tune" => run.alpha = 0
        /\ (run.mode # "fine_tune" /\ W > 0) =>
             /\ hp.alpha_start # AbsentInt =>
                  alpha_for_step(run.mode, hp, 0) = hp.alpha_start
             /\ (hp.alpha # AbsentInt /\ step >= W) => run.alpha = hp.alpha
             /\ (hp.alpha # AbsentInt /\ hp.alpha_start # AbsentInt /\ step < W) =>
                  run.alpha = hp.alpha_start + ((hp.alpha - hp.alpha_start) * step) \div W

(***************************************************************************)
(* C14.  For a list of N samples the deterministic split tags exactly      *)
(* floor(0.9*N) samples train, floor(0.05*N) samples val and the other     *)
(* N - train - val samples test, on consecutive positions of the shuffled  *)
(* list (train first, then val, then test); the output is a permutation of *)
(* the input in which only the split tag of a sample differs.              *)
(***************************************************************************)
Tagged(tag) == {i \in 1..Len(out) : out[i].split = tag}

SplitDone == dpc = "tag" /\ Len(out) = Len(shuffled)

C14_DeterministicSplit ==
  SplitDone =>
    LET N     == Len(dsamples)
        train == Cardinality(Tagged("train"))
        val   == Cardinality(Tagged("val"))
    IN  /\ Len(out) = N
        /\ 10 * train <= 9 * N /\ 9 * N < 10 * (train + 1)
        /\ 20 * val <= N /\ N < 20 * (val + 1)
        /\ Cardinality(Tagged("test")) = N - train - val
        /\ Tagged("train") = 1..train
        /\ Tagged("val") = (train + 1)..(train + val)
        /\ \A i \in 1..N : out[i] = [shuffled[i] EXCEPT !.split = out[i].split]
        /\ \A i \in 1..N : \E j \in 1..N :
             out[j] = [dsamples[i] EXCEPT !.split = out[j].split]
        /\ Cardinality({out[j].correction_id : j \in 1..N}) = N

C14_Witness ==
  /\ SplitDone
  /\ Len(dsamples) = MaxItems
  /\ shuffled # dsamples
  /\ Tagged("val") # {} /\ Tagged("test") # {}

(***************************************************************************)
(* C15 as stated: every sample built from any dataset source has           *)
(* weight >= 0 (1.0 when none is given), and no sample with a negative     *)
(* weight reaches the dataset snapshot or the training loop.               *)
(***************************************************************************)
C15_AsStated ==
  /\ \A i \in 1..Len(dsamples) : dsamples[i].weight >= 0
  /\ \A i \in 1..Len(rows_written) : rows_written[i].weight >= 0
  /\ \A i \in 1..Len(batch_weights) : batch_weights[i] >= 0

(***************************************************************************)
(* C16.  When a teacher is loaded whose vocabulary size differs from the   *)
(* student's, distillation is off for the whole run: loading it raises no  *)
(* error and emits the mismatch warning, and on every batch, in            *)
(* knowledge_distillation and hybrid modes alike, the distillation loss is *)
(* 0 (not computed) and the loss is the supervised loss alone; the run can *)
(* still complete.                                                         *)
(***************************************************************************)
VocabMismatch(r) == r.real /\ r.teacher_model /\ ~r.teacher_logits_ok

MismatchWarned(evs) ==
  \E i \in 1..Len(evs) : evs[i] = Status("warn", "teacher/student vocab mismatch")

C16_VocabMismatch ==
  [][(prog = "train" /\ VocabMismatch(run')) =>
       /\ run'.mode \in {"knowledge_distillation", "hybrid"}
       /\ MismatchWarned(events')
       /\ pc = "resolve_teacher" => (pc' = "next_batch" /\ exc' = Absent)
       /\ run'.forwards > run.forwards =>
            /\ ~run'.kd_loss
            /\ run'.loss_ce = AlphaUnit /\ run'.loss_kd = 0
            /\ exc' = Absent]_vars

C16_Witness ==
  /\ prog = "train" /\ exit_code = ExitOk
  /\ VocabMismatch(run) /\ run.mode = "hybrid"
  /\ run.forwards > 1 /\ run.alpha > 0
  /\ fs[cfg.run_dir]["result.json"] = "completed"

(***************************************************************************)
(* C17 as stated: a training job whose mode is not one of fine_tune,       *)
(* knowledge_distillation, hybrid never reaches status completed and,      *)
(* unless it is cancelled first, ends with an error status event and exit  *)
(* code 2, whether or not a student model is resolved.                     *)
(***************************************************************************)
UnknownMode == prog = "train" /\ cfg # NoCfg /\ Or(cfg.mode, "fine_tune") \notin Modes

C17_AsStated ==
  UnknownMode =>
    /\ ~RunCompleted
    /\ fs[cfg.run_dir]["result.json"] # "completed"
    /\ (Terminated /\ ~EndedByCancel) =>
         (exit_code = ExitError /\ LastEvent.kind = "status" /\ LastEvent.level = "error")

(***************************************************************************)
(* C18 as stated: a training run in which only torch is missing            *)
(* (transformers is importable) never fails for the missing runtime: it    *)
(* runs the stub pipeline, whether or not a student model is resolved from *)
(* the config or the store, and a run that exits with 0 is a stub run.     *)
(***************************************************************************)
TorchOnlyMissing == prog = "train" /\ cfg # NoCfg /\ imports.transformers /\ ~imports.torch

C18_AsStated ==
  TorchOnlyMissing =>
    /\ ~(pc = "except" /\ exc = "RuntimeError" /\ run.student # Absent
           /\ ~IsGguf(run.student))
    /\ exit_code = ExitOk => ~run.real

(***************************************************************************)
(* C19 as stated: the global step counter is capped by the step budget:    *)
(* at every point of the optimization loop and in the steps field of       *)
(* result.json, global step <= max_steps; and when the loop ends without   *)
(* cancellation the number of batches processed is                         *)
(* min(max_steps, epochs * batches per epoch).                             *)
(***************************************************************************)
LoopEnded == pc \in {"poll_validation", "validate", "poll_export", "export", "write_result",
                     "complete"}

C19_AsStated ==
  (prog = "train" /\ run.real) =>
    /\ run.global_step <= run.max_steps
    /\ run.result_steps <= run.max_steps
    /\ LoopEnded => run.forwards = Min(run.max_steps, run.epochs * run.n_batches)

(***************************************************************************)
(* C20.  Every event emitted by the trainer and the evaluator, on every    *)
(* execution path, is one complete line holding one object with a kind and *)
(* a payload, and its kind is one of status, progress, env, dataset,       *)
(* model, metric, artifact.  A line of the output stream is one element of *)
(* events (_jsonl writes the object and its newline in one call); its      *)
(* payload is the record's other fields.                                   *)
(***************************************************************************)
EventKinds == {"status", "progress", "env", "dataset", "model", "metric", "artifact"}

KindsEmitted == {events[i].kind : i \in 1..Len(events)}

C20_EventLines ==
  \A i \in 1..Len(events) :
    /\ DOMAIN events[i] = {"kind", "level", "msg", "step", "dir", "file", "alpha"}
    /\ events[i].kind \in EventKinds

C20_Witness ==
  /\ prog = "train" /\ exit_code = ExitOk
  /\ KindsEmitted = EventKinds

(***************************************************************************)
(* C21.  The cancellation marker is polled exactly once before each batch  *)
(* (each step in the stub pipeline) and never inside a batch; a poll that  *)
(* finds the marker aborts the run with no forward pass, optimizer step or *)
(* progress event for that batch or any later batch.                       *)
(***************************************************************************)
C21_PolledOncePerBatch ==
  [][prog = "train" =>
       /\ run'.forwards > run.forwards =>
            (run.polls = run.forwards + 1 /\ run'.polls = run.polls)
       /\ (pc = "stub_step" /\ pc' # pc) =>
            (run.polls = run.step /\ run'.polls = run.polls)
       /\ run'.polls # run.polls =>
            /\ run'.polls = run.polls + 1
            /\ pc \in {"next_batch", "stub_loop"}
            /\ marker => (pc' = "except" /\ exc' = "CancelledError")
            /\ ~marker => pc' \in {"train_batch", "poll_validation", "stub_step"}
       /\ (exc' = "CancelledError" \/ exc = "CancelledError") =>
            /\ run'.forwards = run.forwards
            /\ run'.optim_step = run.optim_step
            /\ run'.step = run.step
            /\ ProgressEvents' = ProgressEvents
            /\ pc' \notin {"train_batch", "stub_step"}]_vars

C21_Witness ==
  /\ prog = "train" /\ run.real
  /\ exit_code = ExitCancelled
  /\ run.forwards >= 1 /\ run.polls = run.forwards + 1
  /\ run.global_step < run.max_steps
  /\ Len(ProgressEvents) = run.forwards

(***************************************************************************)
(* C22.  An optimizer update is applied exactly at the micro-steps whose   *)
(* global step is a multiple of the accumulation factor N: after k         *)
(* processed batches floor(k / N) updates have executed and optim_step is  *)
(* that count; the other micro-steps only accumulate gradients.            *)
(***************************************************************************)
C22_UpdateEveryNth ==
  [][(prog = "train" /\ run.real) =>
       /\ run.optim_step = run.forwards \div run.grad_accum
       /\ run'.forwards > run.forwards =>
            /\ run'.forwards = run.forwards + 1
            /\ run.global_step = run'.forwards
            /\ run'.optim_step =
                 IF run.global_step % run.grad_accum = 0
                 THEN run.optim_step + 1 ELSE run.optim_step
       /\ run'.optim_step # run.optim_step =>
            (run'.real => run'.forwards > run.forwards)]_vars

C22_Witness ==
  /\ prog = "train" /\ run.real
  /\ run.grad_accum = 2
  /\ run.forwards = 2 /\ run.optim_step = 1
  /\ LoopEnded

(***************************************************************************)
(* C23.  When the optimization loop ends without cancellation the number   *)
(* of optimizer updates executed equals the total the scheduler was        *)
(* configured with, max(1, ceil(min(max_steps, epochs * batches per        *)
(* epoch) / grad_accum)), also when the number of processed batches is not *)
(* a multiple of grad_accum.                                               *)
(***************************************************************************)
C23_AsStated ==
  (prog = "train" /\ run.real /\ LoopEnded) =>
    run.optim_step =
      total_optim_steps(run.max_steps, run.epochs, run.n_batches, run.grad_accum)

(***************************************************************************)
(* C24.  A training run writes result.json at most once: with status       *)
(* completed only when it exits with 0, with status cancelled only when it *)
(* exits with 130; a run that exits with 2 writes no result.json, so the   *)
(* result.json of the run directory is what it was when the run started.   *)
(***************************************************************************)
ResultStatuses == {ResultWrites[i][3] : i \in 1..Len(ResultWrites)}

C24_ResultOnce ==
  prog = "train" =>
    /\ Len(ResultWrites) <= 1
    /\ ResultStatuses \subseteq {"completed", "cancelled"}
    /\ (Terminated /\ "completed" \in ResultStatuses) => exit_code = ExitOk
    /\ (Terminated /\ "cancelled" \in ResultStatuses) => exit_code = ExitCancelled
    /\ "completed" \in ResultStatuses => pc \in {"complete", "exited"}
    /\ exit_code = ExitError =>
         /\ ResultWrites = <<>>
         /\ \A d \in Dirs : fs[d]["result.json"] = Absent

C24_Witness ==
  /\ prog = "train" /\ run.real /\ run.forwards >= 1
  /\ exit_code = ExitError
  /\ ResultWrites = <<>>
  /\ writes # <<>>

(***************************************************************************)
(* C25.  In every trainer run the events are ordered: the "trainer         *)
(* started" status precedes the env event, which precedes the dataset      *)
(* event, which precedes every model, progress, metric and artifact event; *)
(* exactly one terminal status event (completed, cancelled or error) is    *)
(* emitted per run and no event follows it.                                *)
(***************************************************************************)
IsStarted(e) == e.kind = "status" /\ e.msg = "trainer started"

HasKindBefore(i, kind) == \E j \in 1..(i - 1) : events[j].kind = kind

TerminalStatuses == {i \in 1..Len(events) : IsTerminalStatus(events[i])}

C25_AsStated ==
  prog = "train" =>
    /\ \A i \in 1..Len(events) :
         /\ events[i].kind = "env" => \E j \in 1..(i - 1) : IsStarted(events[j])
         /\ events[i].kind = "dataset" => HasKindBefore(i, "env")
         /\ events[i].kind \in {"model", "progress", "metric", "artifact"} =>
              HasKindBefore(i, "dataset")
    /\ TerminalStatuses \subseteq {Len(events)}
    /\ Terminated => TerminalStatuses = {Len(events)}

(***************************************************************************)
(* C26 as stated: every event that names a persisted file (the dataset     *)
(* event for dataset.jsonl, the artifact events for result.json,           *)
(* predictions.jsonl and metrics.json) is emitted after the file's rename  *)
(* has completed, and config.json is persisted before the first event of   *)
(* the run.                                                                *)
(***************************************************************************)
NamedFiles == {"dataset.jsonl", "result.json", "predictions.jsonl", "metrics.json"}

NamesFile(e) == e.kind \in {"dataset", "artifact"} /\ e.file \in NamedFiles

ConfigPersisted ==
  /\ cfg.ok
  /\ fs[cfg.run_dir]["config.json"] = "config"
  /\ writes # <<>> /\ writes[1] = <<cfg.run_dir, "config.json", "config">>

NamedFilesComplete ==
  \A i \in 1..Len(events) :
    NamesFile(events[i]) => fs[events[i].dir][events[i].file] # Absent

C26_AsStated ==
  /\ NamedFilesComplete
  /\ events # <<>> => ConfigPersisted

(***************************************************************************)
(* C26 amended: every event that names a persisted file is emitted after   *)
(* the file's rename has completed; config.json is persisted before the    *)
(* started status, the first event of every run that gets past its         *)
(* configuration.  A run whose config cannot be read or is invalid, or     *)
(* whose config.json cannot be written, emits the error status as its only *)
(* event and has persisted no config.json.                                 *)
(***************************************************************************)
C26_PersistedBeforeNamed ==
  /\ NamedFilesComplete
  /\ events # <<>> =>
       \/ ConfigPersisted /\ events[1].kind = "status"
                          /\ events[1].msg \in {"trainer started", "evaluator started"}
       \/ /\ Len(events) = 1 /\ events[1].kind = "status" /\ events[1].level = "error"
          /\ exit_code = ExitError
          /\ writes = <<>>

C26_Witness ==
  /\ prog = "eval" /\ exit_code = ExitOk
  /\ \E i \in 1..Len(events) :
       events[i] = Artifact("metrics", cfg.run_dir, "metrics.json")
  /\ fs[cfg.run_dir]["metrics.json"] = "metrics"
  /\ ConfigPersisted

(***************************************************************************)
(* C27.  If the cancellation marker exists when a training run starts,     *)
(* then for every step budget and in both pipelines the run processes no   *)
(* batch, executes no optimizer step, emits no progress event and ends     *)
(* cancelled with exit code 130; the runner never creates or removes the   *)
(* marker.                                                                 *)
(***************************************************************************)
MarkedAtStart == prog = "train" /\ marked_at_start

C27_AsStated ==
  [][MarkedAtStart =>
       /\ marker /\ marker'
       /\ run'.forwards = 0 /\ run'.step = 0 /\ run'.optim_step = 0
       /\ ProgressEvents' = <<>>
       /\ Terminated' => exit_code' = ExitCancelled]_vars

(***************************************************************************)
(* C28.  A progress event is emitted exactly at the global steps divisible *)
(* by max(1, emit_every); progress steps are strictly increasing and lie   *)
(* in 1..total_steps; the running accumulators are empty right after each  *)
(* emission, so the reported running loss, their sum divided by            *)
(* max(1, emit_every), is the mean over exactly the batches processed      *)
(* since the previous emission; the cumulative accumulators are never      *)
(* reset.                                                                  *)
(***************************************************************************)
Cadence == IF cfg.emit_every >= 1 THEN cfg.emit_every ELSE 1

ProgressEmitted == Len(ProgressEvents') = Len(ProgressEvents) + 1

ProgressSilent == ProgressEvents' = ProgressEvents

NewProgress == ProgressEvents'[Len(ProgressEvents')]

C28_ProgressCadence ==
  [][prog = "train" =>
       /\ \A i \in 1..(Len(ProgressEvents) - 1) :
            ProgressEvents[i].step < ProgressEvents[i + 1].step
       /\ run.total_count = run.forwards
       /\ run'.forwards > run.forwards =>
            /\ ProgressEmitted <=> run.global_step % Cadence = 0
            /\ ProgressEmitted =>
                 /\ NewProgress.step = run.global_step
                 /\ NewProgress.step \in 1..run.max_steps
                 /\ run.running_count + 1 = Cadence
                 /\ run'.running_count = 0
            /\ ~ProgressEmitted =>
                 (ProgressSilent /\ run'.running_count = run.running_count + 1)
            /\ run'.total_count = run.total_count + 1
       /\ (pc = "stub_step" /\ pc' # pc) =>
            /\ ProgressEmitted <=> run.step % Cadence = 0
            /\ ProgressEmitted =>
                 (NewProgress.step = run.step /\ NewProgress.step \in 1..cfg.steps)
            /\ ~ProgressEmitted => ProgressSilent
       /\ (run'.forwards = run.forwards /\ ~(pc = "stub_step" /\ pc' # pc)) =>
            /\ ProgressSilent
            /\ run'.running_count = run.running_count
            /\ run'.total_count = run.total_count]_vars

C28_Witness ==
  /\ prog = "train" /\ run.real
  /\ cfg.emit_every = 2
  /\ run.forwards = 2 /\ run.total_count = 2 /\ run.running_count = 0
  /\ Len(ProgressEvents) = 1 /\ ProgressEvents[1].step = 2

(***************************************************************************)
(* C29.  Per batch the loss is the supervised loss in fine_tune; in        *)
(* knowledge_distillation the distillation loss when a teacher is loaded   *)
(* and usable, otherwise the supervised loss; in hybrid                    *)
(* (1 - alpha) * supervised + alpha * (distillation when a teacher is      *)
(* usable, otherwise supervised).  With no usable teacher (absent,         *)
(* vocabulary mismatch, or replaced by cached soft labels) the loss of     *)
(* every mode is the supervised loss and the distillation loss is 0.       *)
(***************************************************************************)
TeacherUsable == run.teacher_model /\ run.teacher_logits_ok

LossIs(ce, kd) == run'.loss_ce = ce /\ run'.loss_kd = kd

C29_LossPerMode ==
  [][(prog = "train" /\ run'.forwards > run.forwards) =>
       /\ run.mode = "fine_tune" => LossIs(AlphaUnit, 0)
       /\ run.mode = "knowledge_distillation" =>
            IF TeacherUsable THEN LossIs(0, AlphaUnit) ELSE LossIs(AlphaUnit, 0)
       /\ run.mode = "hybrid" =>
            IF TeacherUsable
            THEN LossIs(AlphaUnit - run'.alpha, run'.alpha)
            ELSE LossIs((AlphaUnit - run'.alpha) + run'.alpha, 0)
       /\ run.has_cached => ~TeacherUsable
       /\ ~TeacherUsable => (LossIs(AlphaUnit, 0) /\ ~run'.kd_loss)
       /\ (TeacherUsable /\ run.mode # "fine_tune") => run'.kd_loss]_vars

C29_Witness ==
  /\ prog = "train" /\ run.real /\ run.forwards >= 1
  /\ run.mode = "hybrid"
  /\ run.has_cached /\ ~run.teacher_model /\ run.teacher_logits_ok
  /\ run.alpha = DefaultAlpha
  /\ run.loss_ce = AlphaUnit /\ run.loss_kd = 0

(***************************************************************************)
(* C30.  For every prompt, separator, target and maximum length M >= 1: if *)
(* prompt+separator+target(+EOS) fits in M nothing is dropped; if the      *)
(* target (with EOS) is at least M long the prompt segment is empty and    *)
(* the target is its first M tokens; otherwise the whole target is kept    *)
(* with the last M - len(target) tokens of prompt+separator.  The encoded  *)
(* length is at most M; input ids, labels and attention mask are equally   *)
(* long; the prompt+separator positions carry the label -100 and the       *)
(* target positions their token ids.                                       *)
(***************************************************************************)
PromptSep == prompt_ids \o sep_ids

TargetEos == IF add_eos /\ eos_id # AbsentInt THEN Append(target_ids, eos_id) ELSE target_ids

PromptKept == Len(encoded.input_ids) - Len(target_full)

C30_EncodeExample ==
  epc = "returned" =>
    LET ids == encoded.input_ids
        M   == max_seq_len
    IN  /\ Len(PromptSep) + Len(TargetEos) <= M => ids = PromptSep \o TargetEos
        /\ Len(TargetEos) >= M =>
             /\ ids = [i \in 1..M |-> TargetEos[i]]
             /\ encoded.labels = ids
        /\ (Len(PromptSep) + Len(TargetEos) > M /\ Len(TargetEos) < M) =>
             ids = [i \in 1..(M - Len(TargetEos)) |->
                      PromptSep[Len(PromptSep) - (M - Len(TargetEos)) + i]] \o TargetEos
        /\ Len(ids) <= M
        /\ Len(encoded.labels) = Len(ids) /\ Len(encoded.attention_mask) = Len(ids)
        /\ \A i \in 1..Len(ids) :
             /\ i <= PromptKept => encoded.labels[i] = 0 - 100
             /\ i > PromptKept => (encoded.labels[i] = ids[i] /\ ids[i] # 0 - 100)

C30_Witness ==
  /\ epc = "returned"
  /\ prompt_ids = <<1, 2>> /\ sep_ids = <<3>> /\ target_ids = <<1>>
  /\ add_eos /\ eos_id # AbsentInt
  /\ max_seq_len = 3
  /\ encoded.input_ids = <<3, 1, eos_id>>
  /\ encoded.labels = <<0 - 100, 1, eos_id>>

====
